---- MODULE Spec2Model ----
(***************************************************************************)
(* Request orchestration core of the CogView4 image-generation server:     *)
(* HTTP admission (main.py), the batch manager and the worker pool with    *)
(* its shared request/result queues (processing.py), and the worker        *)
(* process with its streaming frame protocol (worker.py).                  *)
(***************************************************************************)
EXTENDS Integers, Sequences, FiniteSets, TLC

(***************************************************************************)
(* Bounds of the model.                                                    *)
(***************************************************************************)
\* number of clients; each sends one generation request
NumClients == 2
\* num_inference_steps sent by the clients (the server accepts 10..150)
NumSteps == 2
\* send_chunked_image is tried on strings of up to MaxChunks chunks (and one character more)
MaxChunks == 4
\* number of worker processes in the runs about the pool's life cycle
PoolSize == 2
\* number of gallery calls in one run, and the seconds the gallery clock can show
MaxGalleryCalls == 4
MaxGalleryClock == 2
\* the ids DELETE /v1/gallery/delete/{id} is called with: 1 .. MaxGalleryId
MaxGalleryId == 2
\* number of gallery requests in flight at once, and of calls they make in one run
NumGalleryTasks == 2
MaxLoopCalls == 4
\* longest prompt, in characters, and most retries of a prompt optimize / translate call
MaxPromptLen == 3
MaxRetries == 2

(***************************************************************************)
(* Program constants.                                                      *)
(***************************************************************************)
\* config.py: MAX_TOTAL_PIXELS, default 1024 * 1024 * 4
MAX_TOTAL_PIXELS == 4194304
\* config.py: MAX_BATCH_SIZE, read from the environment (default 8)
MAX_BATCH_SIZE == 2
\* config.py: BATCH_TIMEOUT (0.5 s), counted here in clock ticks
BATCH_TIMEOUT == 1
\* config.py: NUM_WORKER_PROCESSES (default 1)
NUM_WORKER_PROCESSES == 1
\* worker.py: send_chunked_image(max_chunk_size = 400 * 1024)
max_chunk_size == 409600

\* Optional[T]: None is the empty tuple, a present value x is <<x>>
None == <<>>
Some(x) == <<x>>

Clients == 1 .. NumClients

Min(a, b) == IF a <= b THEN a ELSE b


RECURSIVE Flatten(_)
Flatten(ss) == IF ss = <<>> THEN <<>> ELSE Head(ss) \o Flatten(Tail(ss))

\* all orderings of a finite set, as sequences without repeats
Orderings(S) == {s \in [1 .. Cardinality(S) -> S] : \A i, j \in DOMAIN s : i # j => s[i] # s[j]}

(***************************************************************************)
(* Client payloads (schemas.py: ImageGenerationRequest).                   *)
(***************************************************************************)
SizeStrings == {"512x512", "1024x1024", "abc"}

\* utils.py: parse_size; a string that does not parse falls back to 1024x1024
parse_size(size_str) ==
    CASE size_str = "512x512" -> <<512, 512>>
      [] size_str = "1024x1024" -> <<1024, 1024>>
      [] OTHER -> <<1024, 1024>>

Payload(n, size, stream, seed) ==
    [ prompt |-> "p", negative_prompt |-> None, n |-> n, size |-> size,
      guidance_scale |-> 5, num_inference_steps |-> NumSteps,
      stream |-> stream, seed |-> seed ]

NonStreamPayloads ==
    { Payload(n, size, FALSE, seed) : n \in {1, 2, 4}, size \in SizeStrings, seed \in {None, Some(7)} }

StreamPayloads ==
    { Payload(1, size, TRUE, seed) : size \in {"512x512", "1024x1024"}, seed \in {None, Some(7)} }

Payloads == NonStreamPayloads \cup StreamPayloads

\* a stream of megapixel images: the only frames long enough to be chunked
IsLargeStream(p) == p.stream /\ p.size = "1024x1024"

\* The workloads explored: either no client streams, or one client streams
\* next to plain non-streaming requests, or all clients stream small images
\* with the same parameters (and so share a batch key).
Workloads ==
    { w \in [Clients -> Payloads] :
        \/ \A r \in Clients : ~ w[r].stream
        \/ \E r \in Clients :
              /\ w[r].stream
              /\ \A q \in Clients \ {r} : w[q] = Payload(1, "512x512", FALSE, None)
        \/ \A r \in Clients : w[r] = Payload(1, "512x512", TRUE, Some(7)) }

VARIABLES
    payload,            \* the request each client sends
    batch_enabled,      \* WorkerPool.batch_enabled (ENABLE_PROMPT_BATCHING)
    pc,                 \* per client: "new", "rejected", "waiting", "done"
    http_status,        \* per client: 0 (no response yet), 200, 400 or 500
    body,               \* per client: SSE lines written / images of the JSON response
    active_requests,    \* WorkerPool.active_requests
    pending_requests,   \* BatchManager.pending_requests: batch key -> requests
    batch_timers,       \* BatchManager.batch_timers: batch key -> age of the bucket
    batches_created,    \* number of batch ids handed out so far
    request_queue,      \* WorkerPool.request_queue
    result_queue,       \* WorkerPool.result_queue
    dispatched,         \* every message put on request_queue, in order
    worker_model_loaded,\* WorkerPool.worker_model_loaded
    wpc,                \* per worker: "loading", "idle", "in_get", "pipeline", "exited", "killed"
    wmsg,               \* per worker: the message being processed
    wseeds,             \* per worker: the seeds computed for the message
    wstep,              \* per worker: the next step_index of the pipeline
    active_pipelines,   \* per worker: the keys of its active_pipelines dict
    emitted,            \* every result put on result_queue, in order
    chunk_call,         \* arguments and results of one send_chunked_image call
    prompt_call,        \* arguments and response of one prompt optimize / translate call
    num_workers,        \* WorkerPool.num_workers
    shutdown_event,     \* WorkerPool.shutdown_event
    ready_banner_shown, \* WorkerPool.ready_banner_shown
    banners_displayed,  \* number of display_ready_banner() calls so far
    flushed_on_shutdown,\* the request ids shutdown() flushed out of pending buckets
    gallery_json,       \* static/images/gallery.json
    image_files,        \* the image files under static/images
    gallery_clock,      \* int(time.time()) as the gallery handlers read it
    gallery_log,        \* the gallery calls answered so far, with their responses
    gallery_running     \* per gallery request task: what its handler holds between its index read and write

\* pool life cycle (processing.py: readiness monitor, shutdown) and gallery store (main.py)
lifeVars == << num_workers, shutdown_event, ready_banner_shown, banners_displayed,
               flushed_on_shutdown >>
galleryVars == << gallery_json, image_files, gallery_clock, gallery_log, gallery_running >>

vars == << payload, batch_enabled, pc, http_status, body, active_requests,
           pending_requests, batch_timers, batches_created, request_queue,
           result_queue, dispatched, worker_model_loaded, wpc, wmsg, wseeds,
           wstep, active_pipelines, emitted, chunk_call, prompt_call, lifeVars,
           galleryVars >>

\* the worker processes of the pool: range(num_workers)
Workers == 0 .. (num_workers - 1)

\* what admission, batching, the worker's request handlers and dispatch never write
staticVars == << payload, batch_enabled, chunk_call, prompt_call, lifeVars, galleryVars >>
clientVars == << pc, http_status, body, active_requests >>
batchVars == << pending_requests, batch_timers, batches_created >>
workerVars == << worker_model_loaded, wpc, wmsg, wseeds, wstep, active_pipelines >>

NoMsg == [kind |-> "none"]
NoCall == [len |-> -1]
\* the request tasks the gallery handlers run in, and a task outside a handler
GalleryTasks == 1 .. NumGalleryTasks
NoTask == [op |-> "none"]
\* gallery.json does not exist
NoFile == [exists |-> FALSE, valid |-> FALSE, images |-> <<>>]

(***************************************************************************)
(* Batch manager (processing.py: BatchManager).                            *)
(***************************************************************************)
\* schemas.py: GenerationRequest, as built by submit_request
GenerationRequest(request_id, p, stream) ==
    [ kind |-> "single", request_id |-> request_id, prompt |-> p.prompt,
      negative_prompt |-> p.negative_prompt,
      width |-> parse_size(p.size)[1], height |-> parse_size(p.size)[2],
      guidance_scale |-> p.guidance_scale,
      num_inference_steps |-> p.num_inference_steps,
      num_images |-> p.n, stream |-> stream, seed |-> p.seed ]

\* the batch key without the guidance scale
get_batch_key_no_guidance(request) ==
    << request.width, request.height, request.num_inference_steps, request.stream,
       request.num_images, request.seed >>

\* the batch key without the seed
get_batch_key_no_seed(request) ==
    << request.width, request.height, request.guidance_scale,
       request.num_inference_steps, request.stream, request.num_images >>

get_batch_key(request) ==
    << request.width, request.height, request.guidance_scale,
       request.num_inference_steps, request.stream, request.num_images,
       request.seed >>

\* the negative prompts listed from the last request to the first
_create_batch_misaligned(batch_id, requests) ==
    [ kind |-> "batch", batch_id |-> batch_id,
      prompts |-> [i \in DOMAIN requests |-> requests[i].prompt],
      negative_prompts |-> [i \in DOMAIN requests |-> requests[Len(requests) + 1 - i].negative_prompt],
      request_ids |-> [i \in DOMAIN requests |-> requests[i].request_id],
      num_images |-> requests[1].num_images, width |-> requests[1].width,
      height |-> requests[1].height, guidance_scale |-> requests[1].guidance_scale,
      num_inference_steps |-> requests[1].num_inference_steps,
      stream |-> requests[1].stream,
      seeds |-> [i \in DOMAIN requests |-> requests[i].seed] ]

_create_batch(batch_id, requests) ==
    [ kind |-> "batch", batch_id |-> batch_id,
      prompts |-> [i \in DOMAIN requests |-> requests[i].prompt],
      negative_prompts |-> [i \in DOMAIN requests |-> requests[i].negative_prompt],
      request_ids |-> [i \in DOMAIN requests |-> requests[i].request_id],
      num_images |-> requests[1].num_images, width |-> requests[1].width,
      height |-> requests[1].height, guidance_scale |-> requests[1].guidance_scale,
      num_inference_steps |-> requests[1].num_inference_steps,
      stream |-> requests[1].stream,
      seeds |-> [i \in DOMAIN requests |-> requests[i].seed] ]

Without(f, k) == [x \in (DOMAIN f) \ {k} |-> f[x]]

\* the bucket is kept when the new total is exactly MAX_TOTAL_PIXELS
vram_cap_reached_above(total_pixels, current_batch) ==
    total_pixels > MAX_TOTAL_PIXELS /\ current_batch # <<>>

\* every second request of a bucket taken for a VRAM overflow
vram_cap_reached_any(total_pixels, current_batch) == current_batch # <<>>

\* BatchManager.add_request: the VRAM test that flushes the bucket before the append
vram_cap_reached(total_pixels, current_batch) ==
    total_pixels >= MAX_TOTAL_PIXELS /\ current_batch # <<>>

\* a bucket is flushed only once it holds more than max_batch_size requests
batch_ready_late(batch_requests, time_elapsed) ==
    Len(batch_requests) > MAX_BATCH_SIZE \/ time_elapsed >= BATCH_TIMEOUT

\* BatchManager.add_request: the test that flushes the bucket after the append
batch_ready(batch_requests, time_elapsed) ==
    Len(batch_requests) >= MAX_BATCH_SIZE \/ time_elapsed >= BATCH_TIMEOUT

\* BatchManager.add_request: the batches to dispatch (none or one) and the
\* buckets and timers it leaves
add_request(request) ==
    LET batch_key == get_batch_key(request)
        fresh == batch_key \notin DOMAIN pending_requests
        p1 == IF fresh THEN pending_requests @@ (batch_key :> <<>>) ELSE pending_requests
        t1 == IF fresh THEN batch_timers @@ (batch_key :> 0) ELSE batch_timers
        current_batch == p1[batch_key]
        pixels_per_request == request.width * request.height * request.num_images
        total_pixels == pixels_per_request * (Len(current_batch) + 1)
        batch_requests == Append(current_batch, request)
        time_elapsed == t1[batch_key]
    IN  IF vram_cap_reached(total_pixels, current_batch)
        THEN [ batches |-> << _create_batch(batches_created + 1, current_batch) >>,
               pending |-> [p1 EXCEPT ![batch_key] = << request >>],
               timers |-> [t1 EXCEPT ![batch_key] = 0] ]
        ELSE IF batch_ready(batch_requests, time_elapsed)
        THEN [ batches |-> << _create_batch(batches_created + 1, batch_requests) >>,
               pending |-> Without(p1, batch_key),
               timers |-> Without(t1, batch_key) ]
        ELSE [ batches |-> <<>>,
               pending |-> [p1 EXCEPT ![batch_key] = batch_requests],
               timers |-> t1 ]


\* a bucket expires only when older than batch_timeout plus one tick
expired_keys_late == {k \in DOMAIN batch_timers : batch_timers[k] > BATCH_TIMEOUT}

\* BatchManager.check_timeouts: the expired buckets become batches, in the given order
expired_keys == {k \in DOMAIN batch_timers : batch_timers[k] >= BATCH_TIMEOUT}

\* the sweep pops the expired buckets and returns no batch for them
check_timeouts_lost(order) ==
    [ batches |-> <<>>,
      pending |-> [k \in (DOMAIN pending_requests) \ expired_keys |-> pending_requests[k]],
      timers |-> [k \in (DOMAIN batch_timers) \ expired_keys |-> batch_timers[k]] ]

check_timeouts(order) ==
    LET live == [i \in DOMAIN order |-> order[i] \in DOMAIN pending_requests
                                         /\ pending_requests[order[i]] # <<>>]
        number(i) == Cardinality({j \in 1 .. i : live[j]})
        made == [i \in DOMAIN order |->
                    IF live[i]
                    THEN << _create_batch(batches_created + number(i), pending_requests[order[i]]) >>
                    ELSE <<>>]
    IN  [ batches |-> Flatten(made),
          pending |-> [k \in (DOMAIN pending_requests) \ expired_keys |-> pending_requests[k]],
          timers |-> [k \in (DOMAIN batch_timers) \ expired_keys |-> batch_timers[k]] ]

(***************************************************************************)
(* HTTP surface (main.py) and admission (processing.py: submit_request,    *)
(* submit_non_streaming_request).                                          *)
(***************************************************************************)
\* the guard with > in place of >=
exceeds_vram_strict(width, height, n) == width * height * n > MAX_TOTAL_PIXELS

\* main.py: create_image, the VRAM guard
exceeds_vram(width, height, n) == width * height * n >= MAX_TOTAL_PIXELS

\* create_image raising HTTPException(400)
create_image_reject(r) ==
    /\ pc[r] = "new"
    /\ exceeds_vram(parse_size(payload[r].size)[1], parse_size(payload[r].size)[2], payload[r].n)
    /\ pc' = [pc EXCEPT ![r] = "rejected"]
    /\ http_status' = [http_status EXCEPT ![r] = 400]
    /\ UNCHANGED << staticVars, body, active_requests, batchVars,
                    request_queue, result_queue, emitted, dispatched, workerVars >>

\* create_image passing the guard, then submit_request /
\* submit_non_streaming_request up to their first await
create_image_admit(r) ==
    /\ pc[r] = "new"
    /\ ~ exceeds_vram(parse_size(payload[r].size)[1], parse_size(payload[r].size)[2], payload[r].n)
    /\ LET gen_request == GenerationRequest(r, payload[r], payload[r].stream)
           added == add_request(gen_request)
       IN  /\ active_requests' = active_requests \cup {r}
           /\ IF batch_enabled
              THEN /\ pending_requests' = added.pending
                   /\ batch_timers' = added.timers
                   /\ batches_created' = batches_created + Len(added.batches)
                   /\ request_queue' = request_queue \o added.batches
                   /\ dispatched' = dispatched \o added.batches
              ELSE /\ request_queue' = Append(request_queue, gen_request)
                   /\ dispatched' = Append(dispatched, gen_request)
                   /\ UNCHANGED batchVars
    /\ pc' = [pc EXCEPT ![r] = "waiting"]
    \* a StreamingResponse sends its 200 status line before the first frame
    /\ http_status' = [http_status EXCEPT ![r] = IF payload[r].stream THEN 200 ELSE 0]
    /\ UNCHANGED << staticVars, body, result_queue, emitted, workerVars >>

\* the wall clock advances by one tick: every bucket ages (ages saturate at BATCH_TIMEOUT)
Tick ==
    /\ \E k \in DOMAIN batch_timers : batch_timers[k] < BATCH_TIMEOUT
    /\ batch_timers' = [k \in DOMAIN batch_timers |-> Min(batch_timers[k] + 1, BATCH_TIMEOUT)]
    /\ UNCHANGED << staticVars, clientVars, pending_requests, batches_created,
                    request_queue, result_queue, emitted, dispatched, workerVars >>

\* WorkerPool._batch_timeout_checker, one iteration that finds expired buckets
_batch_timeout_checker ==
    /\ batch_enabled
    /\ ~ shutdown_event
    /\ expired_keys # {}
    /\ \E order \in Orderings(expired_keys) :
          LET swept == check_timeouts(order)
          IN  /\ pending_requests' = swept.pending
              /\ batch_timers' = swept.timers
              /\ batches_created' = batches_created + Len(swept.batches)
              /\ request_queue' = request_queue \o swept.batches
              /\ dispatched' = dispatched \o swept.batches
    /\ UNCHANGED << staticVars, clientVars, result_queue, emitted, workerVars >>


(***************************************************************************)
(* Worker process (worker.py: worker_process).                             *)
(***************************************************************************)
\* schemas.py: GenerationResult
GenerationResult(request_id, result_type, data) ==
    [ request_id |-> request_id, result_type |-> result_type, data |-> data ]

\* lengths the base64 string of one encoded image may have: the pipeline and
\* the encoder decide; only megapixel images get longer than the 400 KiB that
\* are sent unchunked
ImageLengths(msg) ==
    IF msg.width * msg.height >= 1024 * 1024
    THEN {max_chunk_size, max_chunk_size + 1}
    ELSE {max_chunk_size}

\* int(time.time() * 1000) % 2**32 at the moment the worker reads the clock
WallClockMs == {1000}

\* the chunk count rounded down
total_chunks_floor(len) == len \div max_chunk_size

\* worker.py: total_chunks = (len + max_chunk_size - 1) // max_chunk_size
total_chunks_of(len) == (len + max_chunk_size - 1) \div max_chunk_size

\* worker.py: send_chunked_image, the results put for one target request_id.
\* The base64 string is known by its length; a slice image_b64[lo:hi] of it
\* is the pair of its bounds.
chunks_for(request_id, len, step_index, is_final_step, image_idx, request_info) ==
    LET common == [ step |-> step_index,
                    progress |-> << step_index + 1, request_info.num_inference_steps >>,
                    is_final |-> is_final_step, image_index |-> image_idx,
                    total_images |-> request_info.num_images, seed |-> request_info.seed ]
    IN  IF len <= max_chunk_size
        THEN << GenerationResult(request_id, "streaming_step",
                   common @@ [ image |-> << 0, len >>, is_chunked |-> FALSE ]) >>
        ELSE [ i \in 1 .. total_chunks_of(len) |->
                 GenerationResult(request_id, "streaming_step",
                   common @@ [ image |-> << (i - 1) * max_chunk_size,
                                            Min(i * max_chunk_size, len) >>,
                               is_chunked |-> TRUE,
                               chunk_id |-> << request_id, step_index, image_idx >>,
                               chunk_index |-> i - 1,
                               total_chunks |-> total_chunks_of(len) ]) ]

\* worker.py: send_chunked_image, over all target request ids
send_chunked_image(len, step_index, is_final_step, image_idx, request_info) ==
    Flatten([ t \in DOMAIN request_info.request_ids |->
                chunks_for(request_info.request_ids[t], len, step_index,
                           is_final_step, image_idx, request_info) ])

\* the request ids a message answers to
targets(msg) == IF msg.kind = "batch" THEN msg.request_ids ELSE << msg.request_id >>

\* number of prompts the pipeline is called with
num_prompts(msg) == IF msg.kind = "batch" THEN Len(msg.prompts) ELSE 1

\* the None slots left out of the list
processed_negative_prompts_filtered(negative_prompts) ==
    LET kept == SelectSeq(negative_prompts, LAMBDA p : p # None)
    IN  [i \in DOMAIN kept |-> kept[i][1]]

\* worker.py: [p if p is not None else "" for p in batch_request.negative_prompts]
processed_negative_prompts(negative_prompts) ==
    [i \in DOMAIN negative_prompts |->
        IF negative_prompts[i] = None THEN "" ELSE negative_prompts[i][1]]

\* the text arguments of the pipeline call of a batch
pipeline_kwargs(msg) ==
    [ prompt |-> msg.prompts,
      negative_prompt |-> processed_negative_prompts(msg.negative_prompts) ]

\* worker.py: the seeds of a message; a missing seed is read off the clock
seeds_of(msg, now_ms) ==
    IF msg.kind = "batch"
    THEN [ i \in DOMAIN msg.seeds |->
             IF msg.seeds[i] # None THEN msg.seeds[i] ELSE Some(now_ms + (i - 1)) ]
    ELSE << IF msg.seed # None THEN msg.seed ELSE Some(now_ms) >>

\* request_info handed to create_step_callback
request_info_of(msg, seeds) ==
    [ request_ids |-> targets(msg), num_inference_steps |-> msg.num_inference_steps,
      num_images |-> msg.num_images, seed |-> seeds[1] ]

\* step_callback with every image decoded and encoded: lens[k] is the length
\* of the base64 string of image k - 1
step_callback(msg, seeds, step_index, lens) ==
    LET is_final_step == step_index = msg.num_inference_steps - 1
    IN  Flatten([ k \in DOMAIN lens |->
                    send_chunked_image(lens[k], step_index, is_final_step, k - 1,
                                       request_info_of(msg, seeds)) ])

\* result.images of the pipeline: one image per prompt and per num_images,
\* prompt-major; an image is known by the call that made it and its position
pipeline_id(msg) == IF msg.kind = "batch" THEN msg.batch_id ELSE msg.request_id

pipeline_images(msg) ==
    [ k \in 1 .. (num_prompts(msg) * msg.num_images) |->
        [ call |-> pipeline_id(msg), pos |-> k - 1 ] ]

\* the slice with image_index advanced by one per request
request_images_step_one(images, i, num_images) ==
    SubSeq(images, i + 1, Min(i + num_images, Len(images)))

\* result.images[image_index:image_index + num_images] for the i-th request (0-based)
request_images(images, i, num_images) ==
    SubSeq(images, i * num_images + 1, Min(i * num_images + num_images, Len(images)))

\* process_non_streaming_request / process_batched_non_streaming_request on success
completed_non_streaming(msg, seeds) ==
    [ t \in DOMAIN targets(msg) |->
        GenerationResult(targets(msg)[t], "completed",
            [ images |-> request_images(pipeline_images(msg), t - 1, msg.num_images),
              seed |-> seeds[1] ]) ]

\* process_streaming_request / process_batched_streaming_request after the pipeline
completed_streaming(msg) ==
    [ t \in DOMAIN targets(msg) |-> GenerationResult(targets(msg)[t], "completed", None) ]

\* the except branch of the four process_* functions
error_results(msg) ==
    [ t \in DOMAIN targets(msg) |->
        GenerationResult(targets(msg)[t], "error", [ error |-> "pipeline failed" ]) ]

frontVars == << staticVars, clientVars, batchVars, dispatched >>

\* CUDA set-up and model load succeed: worker_model_loaded[worker_id] = True
worker_load(w) ==
    /\ wpc[w] = "loading"
    /\ wpc' = [wpc EXCEPT ![w] = "idle"]
    /\ worker_model_loaded' = [worker_model_loaded EXCEPT ![w] = TRUE]
    /\ UNCHANGED << frontVars, request_queue, result_queue, emitted, wmsg, wseeds, wstep,
                    active_pipelines >>

\* the key a handler gives get_pipeline_for_request and cleanup_pipeline:
\* request_id, or batch_id for a batch
view_key(msg) == << msg.kind, pipeline_id(msg) >>

\* get_pipeline_for_request: a view of the base pipeline is made and kept
\* under the key unless one is there
get_pipeline_for_request(w, key) ==
    active_pipelines' = [active_pipelines EXCEPT ![w] = @ \cup {key}]

\* cleanup_pipeline: del active_pipelines[request_id]
cleanup_pipeline(w, key) ==
    active_pipelines' = [active_pipelines EXCEPT ![w] = @ \ {key}]

\* the main loop entered while the model is still being loaded
in_main_loop_early(w) ==
    \/ wpc[w] \in {"idle", "loading"} /\ ~ shutdown_event
    \/ wpc[w] = "in_get"

\* while not shutdown_event.is_set(): request_queue.get(timeout=1.0); a
\* worker that was inside get() when the event was set still gets a message
in_main_loop(w) ==
    \/ wpc[w] = "idle" /\ ~ shutdown_event
    \/ wpc[w] = "in_get"

\* main loop: request_queue.get, dispatch on the message type and stream flag,
\* seeds computed, pipeline started
worker_take(w) ==
    /\ in_main_loop(w)
    /\ request_queue # <<>>
    /\ \E now_ms \in WallClockMs :
          wseeds' = [wseeds EXCEPT ![w] = seeds_of(Head(request_queue), now_ms)]
    /\ wmsg' = [wmsg EXCEPT ![w] = Head(request_queue)]
    /\ request_queue' = Tail(request_queue)
    /\ wpc' = [wpc EXCEPT ![w] = "pipeline"]
    /\ wstep' = [wstep EXCEPT ![w] = 0]
    /\ get_pipeline_for_request(w, view_key(Head(request_queue)))
    /\ UNCHANGED << frontVars, result_queue, emitted, worker_model_loaded >>

\* result_queue.put of each of the results, in order
put_results(results) ==
    /\ result_queue' = result_queue \o results
    /\ emitted' = emitted \o results

\* the handler returns to the main loop
worker_reset(w) ==
    /\ wpc' = [wpc EXCEPT ![w] = "idle"]
    /\ wmsg' = [wmsg EXCEPT ![w] = NoMsg]
    /\ wseeds' = [wseeds EXCEPT ![w] = <<>>]
    /\ wstep' = [wstep EXCEPT ![w] = 0]

\* cleanup_pipeline, then back to the main loop
worker_idle(w) ==
    /\ worker_reset(w)
    /\ cleanup_pipeline(w, view_key(wmsg[w]))

\* a step whose decode fails reports an error for every request id, as the
\* outer except branch of step_callback does
worker_step_error_reported(w) ==
    /\ wpc[w] = "pipeline" /\ wmsg[w].stream
    /\ wstep[w] < wmsg[w].num_inference_steps
    /\ put_results(error_results(wmsg[w]))
    /\ wstep' = [wstep EXCEPT ![w] = @ + 1]
    /\ UNCHANGED << frontVars, request_queue, worker_model_loaded, wpc, wmsg, wseeds,
                    active_pipelines >>

\* streaming: the pipeline finishes one step and calls step_callback; all
\* images of one step have base64 strings of the same length
worker_step(w) ==
    /\ wpc[w] = "pipeline" /\ wmsg[w].stream
    /\ wstep[w] < wmsg[w].num_inference_steps
    /\ \/ \E len \in ImageLengths(wmsg[w]) :
             put_results(step_callback(wmsg[w], wseeds[w], wstep[w],
                 [k \in 1 .. (num_prompts(wmsg[w]) * wmsg[w].num_images) |-> len]))
       \/ \* decode_error: vae.decode raises, or image.save raises at image
          \* failed_at: logged; the images before it were sent, the others are not
          \E len \in ImageLengths(wmsg[w]),
             failed_at \in 0 .. (num_prompts(wmsg[w]) * wmsg[w].num_images - 1) :
             put_results(step_callback(wmsg[w], wseeds[w], wstep[w],
                 [k \in 1 .. failed_at |-> len]))
    /\ wstep' = [wstep EXCEPT ![w] = @ + 1]
    /\ UNCHANGED << frontVars, request_queue, worker_model_loaded, wpc, wmsg, wseeds,
                    active_pipelines >>

\* streaming: the pipeline returned, one completed per request id
worker_stream_completed(w) ==
    /\ wpc[w] = "pipeline" /\ wmsg[w].stream
    /\ wstep[w] = wmsg[w].num_inference_steps
    /\ put_results(completed_streaming(wmsg[w]))
    /\ worker_idle(w)
    /\ UNCHANGED << frontVars, request_queue, worker_model_loaded >>

\* non-streaming: the pipeline returned its images, one completed per request id
worker_non_streaming(w) ==
    /\ wpc[w] = "pipeline" /\ ~ wmsg[w].stream
    /\ put_results(completed_non_streaming(wmsg[w], wseeds[w]))
    /\ worker_idle(w)
    /\ UNCHANGED << frontVars, request_queue, worker_model_loaded >>

\* batched non-streaming: PNG encoding raises inside the loop over the
\* request ids, after the completed of the first k members was put; the
\* except branch then puts one error per request id, those k included
worker_encode_error(w) ==
    /\ wpc[w] = "pipeline" /\ ~ wmsg[w].stream
    /\ \E k \in 1 .. (Len(targets(wmsg[w])) - 1) :
          put_results(SubSeq(completed_non_streaming(wmsg[w], wseeds[w]), 1, k)
                      \o error_results(wmsg[w]))
    /\ worker_idle(w)
    /\ UNCHANGED << frontVars, request_queue, worker_model_loaded >>

\* the pipeline call raises: one error per request id
worker_pipeline_error(w) ==
    /\ wpc[w] = "pipeline"
    /\ put_results(error_results(wmsg[w]))
    /\ worker_idle(w)
    /\ UNCHANGED << frontVars, request_queue, worker_model_loaded >>

\* the pipeline call raises a CUDA error: one error per request id; in the
\* finally branch cleanup_pipeline enters "with torch.cuda.device(gpu_id)",
\* which raises too, before the del: the exception is logged and the view
\* stays in active_pipelines
worker_error_cleanup_failed(w) ==
    /\ wpc[w] = "pipeline"
    /\ put_results(error_results(wmsg[w]))
    /\ worker_reset(w)
    /\ UNCHANGED << frontVars, request_queue, worker_model_loaded, active_pipelines >>

(***************************************************************************)
(* Dispatch fabric and response writers (processing.py: _stream_results,   *)
(* _wait_for_completion; main.py: generate_sse_stream, create_image).      *)
(***************************************************************************)
\* result.get(key): None when the key is absent
Get(data, key) == IF key \in DOMAIN data THEN Some(data[key]) ELSE None

\* main.py: the StreamingImageData built from one streaming_step result
\* (the wall-clock timestamp is left out)
StreamingImageData(result, total_steps) ==
    [ type |-> "image", step |-> result.step, total_steps |-> total_steps,
      progress |-> result.progress, image |-> result.image,
      is_final |-> result.is_final, is_chunked |-> result.is_chunked,
      chunk_id |-> Get(result, "chunk_id"), chunk_index |-> Get(result, "chunk_index"),
      total_chunks |-> Get(result, "total_chunks"),
      image_index |-> result.image_index, total_images |-> result.total_images,
      seed |-> result.seed ]

\* main.py: the frame written when the stream raises
ErrorFrame(message) == [ type |-> "error", error |-> message ]

\* main.py: "data: [DONE]"
DoneLine == [ type |-> "done" ]

\* main.py: ImageData(b64_json = b64, seed = seed) for each image of the result
ImageDataList(result) ==
    [ k \in DOMAIN result.images |-> [ b64_json |-> result.images[k], seed |-> result.seed ] ]

\* what generate_sse_stream writes for one result of its own request:
\* _stream_results raises on error, ends on completed, yields a step
sse_lines(result, total_steps) ==
    CASE result.result_type = "error" -> << ErrorFrame(result.data.error), DoneLine >>
      [] result.result_type = "completed" -> << DoneLine >>
      [] OTHER -> << StreamingImageData(result.data, total_steps) >>

\* whether a result of its own request ends the consumer loop
is_terminal(result) == result.result_type \in {"error", "completed"}

\* the status create_image answers with for a terminal result
status_for(result) == IF result.result_type = "error" THEN 500 ELSE 200

\* processing.py: result_queue.put(result) of a result taken from the head
\* that belongs to another request
requeue(queue) == Append(Tail(queue), Head(queue))

\* a consumer that ends without its finally clause: the entry stays
finish_kept(r) ==
    /\ pc' = [pc EXCEPT ![r] = "done"]
    /\ UNCHANGED active_requests

\* the finally clause of submit_request / submit_non_streaming_request
finish(r) ==
    /\ pc' = [pc EXCEPT ![r] = "done"]
    /\ active_requests' = active_requests \ {r}

backVars == << staticVars, batchVars, request_queue, dispatched, workerVars, emitted >>

\* one iteration of _stream_results that finds the queue non-empty, with what
\* generate_sse_stream writes for it
_stream_results(r) ==
    /\ pc[r] = "waiting" /\ payload[r].stream
    /\ result_queue # <<>>
    /\ LET result == Head(result_queue)
       IN  IF result.request_id # r
           THEN /\ result_queue' = requeue(result_queue)
                /\ UNCHANGED << pc, http_status, body, active_requests >>
           ELSE /\ result_queue' = Tail(result_queue)
                /\ body' = [body EXCEPT ![r] = @ \o sse_lines(result, payload[r].num_inference_steps)]
                /\ UNCHANGED http_status
                /\ IF is_terminal(result)
                   THEN finish(r)
                   ELSE UNCHANGED << pc, active_requests >>
    /\ UNCHANGED backVars

\* one iteration of _wait_for_completion that finds the queue non-empty, with
\* the response create_image returns for it
_wait_for_completion(r) ==
    /\ pc[r] = "waiting" /\ ~ payload[r].stream
    /\ result_queue # <<>>
    /\ LET result == Head(result_queue)
       IN  IF result.request_id # r
           THEN /\ result_queue' = requeue(result_queue)
                /\ UNCHANGED << pc, http_status, body, active_requests >>
           ELSE /\ result_queue' = Tail(result_queue)
                /\ IF is_terminal(result)
                   THEN /\ http_status' = [http_status EXCEPT ![r] = status_for(result)]
                        /\ body' = [body EXCEPT ![r] =
                              IF result.result_type = "completed"
                              THEN ImageDataList(result.data) ELSE @]
                        /\ finish(r)
                   ELSE UNCHANGED << pc, http_status, body, active_requests >>
    /\ UNCHANGED backVars

(***************************************************************************)
(* The system.                                                             *)
(***************************************************************************)
InitFor(workloads, n) ==
    /\ num_workers = n
    /\ shutdown_event = FALSE
    /\ ready_banner_shown = FALSE
    /\ banners_displayed = 0
    /\ flushed_on_shutdown = {}
    /\ gallery_json = NoFile
    /\ image_files = {}
    /\ gallery_clock = 1
    /\ gallery_log = <<>>
    /\ gallery_running = [t \in GalleryTasks |-> NoTask]
    /\ payload \in workloads
    /\ batch_enabled \in BOOLEAN
    /\ pc = [r \in Clients |-> "new"]
    /\ http_status = [r \in Clients |-> 0]
    /\ body = [r \in Clients |-> <<>>]
    /\ active_requests = {}
    /\ pending_requests = <<>>
    /\ batch_timers = <<>>
    /\ batches_created = 0
    /\ request_queue = <<>>
    /\ result_queue = <<>>
    /\ dispatched = <<>>
    /\ worker_model_loaded = [w \in Workers |-> FALSE]
    /\ wpc = [w \in Workers |-> "loading"]
    /\ wmsg = [w \in Workers |-> NoMsg]
    /\ wseeds = [w \in Workers |-> <<>>]
    /\ wstep = [w \in Workers |-> 0]
    /\ active_pipelines = [w \in Workers |-> {}]
    /\ emitted = <<>>
    /\ chunk_call = NoCall
    /\ prompt_call = NoCall

InitWith(workloads) == InitFor(workloads, NUM_WORKER_PROCESSES)

Init == InitWith(Workloads)

Next ==
    \/ \E r \in Clients : create_image_reject(r)
    \/ \E r \in Clients : create_image_admit(r)
    \/ Tick
    \/ _batch_timeout_checker
    \/ \E w \in Workers : worker_load(w)
    \/ \E w \in Workers : worker_take(w)
    \/ \E w \in Workers : worker_step(w)
    \/ \E w \in Workers : worker_stream_completed(w)
    \/ \E w \in Workers : worker_non_streaming(w)
    \/ \E w \in Workers : worker_encode_error(w)
    \/ \E w \in Workers : worker_pipeline_error(w)
    \/ \E r \in Clients : _stream_results(r)
    \/ \E r \in Clients : _wait_for_completion(r)

Spec == Init /\ [][Next]_vars

\* the workloads of the runs under fair scheduling: small requests, streamed
\* or not, and one request at the VRAM cap
FairPayloads ==
    { Payload(1, "512x512", FALSE, None), Payload(1, "512x512", TRUE, None),
      Payload(4, "1024x1024", FALSE, None) }

FairInit == InitWith({wl \in Workloads : \A r \in Clients : wl[r] \in FairPayloads})

\* what the scheduling gives: the batch ticker thread, the worker processes
\* and every consumer task of the event loop keep running; the clock
\* advances; a pipeline that does not raise returns
Fairness ==
    /\ WF_vars(Tick)
    /\ WF_vars(_batch_timeout_checker)
    /\ \A w \in 0 .. (NUM_WORKER_PROCESSES - 1) :
          /\ WF_vars(worker_load(w))
          /\ WF_vars(worker_take(w))
          /\ WF_vars(worker_step(w))
          /\ WF_vars(worker_stream_completed(w))
          /\ WF_vars(worker_non_streaming(w))
    /\ \A r \in Clients :
          /\ WF_vars(_stream_results(r))
          /\ WF_vars(_wait_for_completion(r))

FairSpec == FairInit /\ [][Next]_vars /\ Fairness

\* the workloads of the batching runs: one plain request and its variants,
\* each differing from it in one field of ImageGenerationRequest (or in both
\* prompts), and one request at the VRAM cap
BasePayload == Payload(1, "512x512", FALSE, None)

BatchPayloads ==
    { BasePayload,
      [BasePayload EXCEPT !.prompt = "q"],
      [BasePayload EXCEPT !.negative_prompt = Some("x")],
      [BasePayload EXCEPT !.prompt = "q", !.negative_prompt = Some("y")],
      [BasePayload EXCEPT !.guidance_scale = 7],
      [BasePayload EXCEPT !.num_inference_steps = NumSteps + 1],
      [BasePayload EXCEPT !.size = "1024x1024"],
      [BasePayload EXCEPT !.n = 2],
      [BasePayload EXCEPT !.seed = Some(7)],
      [BasePayload EXCEPT !.stream = TRUE],
      Payload(4, "1024x1024", FALSE, None) }

BatchInit == InitWith([Clients -> BatchPayloads])

BatchSpec == BatchInit /\ [][Next]_vars

(***************************************************************************)
(* Pool life cycle (processing.py: all_models_loaded, is_ready,            *)
(* _monitor_worker_readiness, shutdown; main.py: health_check; worker.py:  *)
(* start-up failure and the end of the main loop).                         *)
(***************************************************************************)
\* ready as soon as one worker has loaded its model
all_models_loaded_any ==
    \E w \in DOMAIN worker_model_loaded : worker_model_loaded[w]

\* WorkerPool.all_models_loaded
all_models_loaded ==
    IF DOMAIN worker_model_loaded = {} THEN FALSE
    ELSE LET loaded_workers == Cardinality({w \in DOMAIN worker_model_loaded : worker_model_loaded[w]})
         IN  loaded_workers = num_workers /\ num_workers > 0

\* WorkerPool.is_ready
is_ready == all_models_loaded /\ ready_banner_shown

\* main.py: GET /health
health_check ==
    [ status |-> IF is_ready THEN "healthy" ELSE "unhealthy",
      worker_pool_initialized |-> TRUE,
      workers_ready |-> all_models_loaded,
      total_workers |-> num_workers ]

\* WorkerPool._monitor_worker_readiness: the iteration that finds every model loaded
_monitor_worker_readiness ==
    /\ ~ shutdown_event /\ ~ ready_banner_shown
    /\ all_models_loaded
    /\ ready_banner_shown' = TRUE
    /\ banners_displayed' = banners_displayed + 1
    /\ UNCHANGED << payload, batch_enabled, chunk_call, prompt_call, galleryVars, num_workers,
                    shutdown_event, flushed_on_shutdown, clientVars, batchVars,
                    request_queue, result_queue, dispatched, workerVars, emitted >>

\* the worker that fails to load writes True to its slot before it returns
worker_load_failed_ready(w) ==
    /\ wpc[w] = "loading"
    /\ wpc' = [wpc EXCEPT ![w] = "exited"]
    /\ worker_model_loaded' = [worker_model_loaded EXCEPT ![w] = TRUE]
    /\ UNCHANGED << frontVars, request_queue, result_queue, emitted, wmsg, wseeds, wstep,
                    active_pipelines >>

\* worker.py: CUDA is not available or the model fails to load; the worker returns
worker_load_failed(w) ==
    /\ wpc[w] = "loading"
    /\ wpc' = [wpc EXCEPT ![w] = "exited"]
    /\ worker_model_loaded' = [worker_model_loaded EXCEPT ![w] = FALSE]
    /\ UNCHANGED << frontVars, request_queue, result_queue, emitted, wmsg, wseeds, wstep,
                    active_pipelines >>

\* a worker process that reported ready is killed from outside; the message it
\* was processing is lost; one worker at most is killed
kill_worker(w) ==
    /\ wpc[w] \in {"idle", "in_get", "pipeline"}
    /\ \A v \in Workers : wpc[v] # "killed"
    /\ wpc' = [wpc EXCEPT ![w] = "killed"]
    /\ wmsg' = [wmsg EXCEPT ![w] = NoMsg]
    /\ wseeds' = [wseeds EXCEPT ![w] = <<>>]
    /\ wstep' = [wstep EXCEPT ![w] = 0]
    /\ active_pipelines' = [active_pipelines EXCEPT ![w] = {}]
    /\ UNCHANGED << frontVars, request_queue, result_queue, emitted, worker_model_loaded >>

\* BatchManager.flush_pending_batches: one batch per non-empty bucket, in dict order
flush_pending_batches(order) ==
    LET live == SelectSeq(order, LAMBDA k : pending_requests[k] # <<>>)
    IN  [i \in DOMAIN live |-> _create_batch(batches_created + i, pending_requests[live[i]])]

\* WorkerPool.shutdown up to shutdown_event.set(); in_get marks the idle
\* workers that are inside request_queue.get(timeout=1.0) at that moment
shutdown ==
    /\ ~ shutdown_event
    /\ \E order \in Orderings(DOMAIN pending_requests) :
          LET pending_batches == IF batch_enabled THEN flush_pending_batches(order) ELSE <<>>
          IN  /\ request_queue' = request_queue \o pending_batches
              /\ dispatched' = dispatched \o pending_batches
              /\ batches_created' = batches_created + Len(pending_batches)
              /\ flushed_on_shutdown' =
                    UNION {{pending_batches[i].request_ids[j] : j \in DOMAIN pending_batches[i].request_ids} : i \in DOMAIN pending_batches}
    /\ pending_requests' = IF batch_enabled THEN <<>> ELSE pending_requests
    /\ batch_timers' = IF batch_enabled THEN <<>> ELSE batch_timers
    /\ shutdown_event' = TRUE
    /\ \E in_get \in SUBSET {w \in Workers : wpc[w] = "idle"} :
          wpc' = [w \in Workers |-> IF w \in in_get THEN "in_get" ELSE wpc[w]]
    /\ UNCHANGED << payload, batch_enabled, chunk_call, prompt_call, galleryVars, num_workers,
                    ready_banner_shown, banners_displayed, clientVars, result_queue,
                    emitted, worker_model_loaded, wmsg, wseeds, wstep, active_pipelines >>

\* worker.py: the main loop ends: shutdown_event is set at the loop test, or
\* get() timed out on an empty channel and the test follows
worker_exit(w) ==
    /\ shutdown_event
    /\ \/ wpc[w] = "idle"
       \/ wpc[w] = "in_get" /\ request_queue = <<>>
    /\ wpc' = [wpc EXCEPT ![w] = "exited"]
    /\ UNCHANGED << frontVars, request_queue, result_queue, emitted,
                    worker_model_loaded, wmsg, wseeds, wstep, active_pipelines >>

\* shutdown() that only joins: a worker still alive after the timeout is left alone
terminate_worker_skipped(w) ==
    /\ FALSE
    /\ wpc[w] \in {"loading", "pipeline"}
    /\ UNCHANGED vars

\* WorkerPool.shutdown: worker.join(timeout=10) ran out, worker.terminate()
terminate_worker(w) ==
    /\ shutdown_event
    /\ wpc[w] \in {"loading", "pipeline"}
    /\ wpc' = [wpc EXCEPT ![w] = "exited"]
    /\ wmsg' = [wmsg EXCEPT ![w] = NoMsg]
    /\ wseeds' = [wseeds EXCEPT ![w] = <<>>]
    /\ wstep' = [wstep EXCEPT ![w] = 0]
    /\ active_pipelines' = [active_pipelines EXCEPT ![w] = {}]
    /\ UNCHANGED << frontVars, request_queue, result_queue, emitted, worker_model_loaded >>

PoolInit == InitFor({wl \in Workloads : \A r \in Clients : wl[r] \in FairPayloads}, PoolSize)

PoolNext ==
    \/ Next
    \/ _monitor_worker_readiness
    \/ shutdown
    \/ \E w \in Workers : worker_load_failed(w)
    \/ \E w \in Workers : kill_worker(w)
    \/ \E w \in Workers : worker_exit(w)
    \/ \E w \in Workers : terminate_worker(w)

PoolSpec == PoolInit /\ [][PoolNext]_vars

\* what the scheduling gives a pool that shuts down: a pipeline that does not
\* raise returns, a worker process keeps running its loop, and shutdown()
\* goes on from join(timeout=10) to terminate()
PoolFairness ==
    \A w \in 0 .. (PoolSize - 1) :
        /\ WF_vars(worker_take(w))
        /\ WF_vars(worker_step(w))
        /\ WF_vars(worker_stream_completed(w))
        /\ WF_vars(worker_non_streaming(w))
        /\ WF_vars(worker_exit(w))
        /\ WF_vars(terminate_worker(w))

\* the pool from construction to shutdown(), without the banner thread and
\* without outside kills; the first client sends any of the requests of
\* FairPayloads and the others a plain one
ShutdownInit ==
    InitFor({wl \in Workloads : /\ wl[1] \in FairPayloads
                                /\ \A r \in Clients \ {1} : wl[r] = BasePayload}, PoolSize)

ShutdownNext ==
    \/ Next
    \/ shutdown
    \/ \E w \in Workers : worker_load_failed(w)
    \/ \E w \in Workers : worker_exit(w)
    \/ \E w \in Workers : terminate_worker(w)

PoolFairSpec == ShutdownInit /\ [][ShutdownNext]_vars /\ PoolFairness

\* the request path with the failure of cleanup_pipeline added
ViewNext ==
    \/ Next
    \/ \E w \in Workers : worker_error_cleanup_failed(w)

ViewSpec == FairInit /\ [][ViewNext]_vars

\* the client of a streamed request goes away: the StreamingResponse is
\* cancelled, the generators of generate_sse_stream and submit_request are
\* closed and the finally clause of submit_request runs
client_disconnect(r) ==
    /\ pc[r] = "waiting" /\ payload[r].stream
    /\ pc' = [pc EXCEPT ![r] = "disconnected"]
    /\ active_requests' = active_requests \ {r}
    /\ UNCHANGED << http_status, body, result_queue, backVars >>

\* main.py: GET /status
status_check ==
    [ server_version |-> "1.0.0",
      worker_pool |-> [ initialized |-> TRUE,
                        num_workers |-> num_workers,
                        active_requests |-> Cardinality(active_requests) ] ]

\* the request path with clients that leave and with the shutdown of the pool
DisconnectNext ==
    \/ Next
    \/ \E r \in Clients : client_disconnect(r)
    \/ shutdown
    \/ \E w \in Workers : worker_exit(w)
    \/ \E w \in Workers : terminate_worker(w)

DisconnectSpec == FairInit /\ [][DisconnectNext]_vars

(***************************************************************************)
(* The three ways a bucket leaves the Batch Manager: add_request (size,    *)
(* age or VRAM), the timeout sweep and the flush of shutdown().  Two small  *)
(* requests fill a batch; two requests of two megapixels each reach        *)
(* MAX_TOTAL_PIXELS together.                                              *)
(***************************************************************************)
FlushPayloads ==
    { BasePayload,
      [BasePayload EXCEPT !.prompt = "q", !.negative_prompt = Some("x")],
      Payload(2, "1024x1024", FALSE, None),
      [Payload(2, "1024x1024", FALSE, None) EXCEPT !.prompt = "q"] }

\* one client may also stream, or ask for more than the VRAM guard admits
FlushWorkloads ==
    { wl \in [Clients -> FlushPayloads \cup { [BasePayload EXCEPT !.stream = TRUE],
                                             Payload(4, "1024x1024", FALSE, None) }] :
        \A r \in Clients \ {1} : wl[r] \in FlushPayloads }

FlushInit == InitWith(FlushWorkloads)

FlushNext ==
    \/ Next
    \/ shutdown
    \/ \E w \in Workers : worker_exit(w)
    \/ \E w \in Workers : terminate_worker(w)

FlushSpec == FlushInit /\ [][FlushNext]_vars

\* the wall clock advances and the daemon thread of _batch_timeout_checker
\* keeps being scheduled until shutdown_event is set
FlushFairness == WF_vars(Tick) /\ WF_vars(_batch_timeout_checker)

FlushFairSpec == FlushInit /\ [][FlushNext]_vars /\ FlushFairness

(***************************************************************************)
(* Gallery store (main.py: get_gallery, save_to_gallery,                   *)
(* delete_from_gallery).  A request body is a function from the keys it    *)
(* holds to their values, None for a JSON null.  The handlers have no      *)
(* await, so each runs as one step.                                        *)
(***************************************************************************)
serviceVars == << payload, batch_enabled, chunk_call, prompt_call, lifeVars, clientVars, batchVars,
                  request_queue, result_queue, dispatched, workerVars, emitted >>

\* dict.get(key, default)
dict_get(request, key, default) == IF key \in DOMAIN request THEN request[key] ELSE default

\* the bodies sent to POST /v1/gallery/save; image_data names what the
\* base64 string decodes to
FullSave ==
    [ image_data |-> Some("PNG"), prompt |-> Some("p"), size |-> Some("512x512"),
      negative_prompt |-> Some("x"), seed |-> Some(0), guidance_scale |-> Some(7),
      num_inference_steps |-> Some(30) ]
GalleryRequests ==
    { FullSave,
      [FullSave EXCEPT !.seed = None, !.negative_prompt = Some(""), !.image_data = Some("JPEG")],
      [FullSave EXCEPT !.image_data = Some("bad")],
      [image_data |-> Some("PNG"), prompt |-> Some("q"), size |-> Some("1024x1024")],
      [image_data |-> Some("PNG"), size |-> Some("512x512")] }

\* random.randint(0, 2147483647)
RandomSeeds == {3, 2147483647}

\* what can go wrong on disk during a save or a delete
SaveFaults == {"none", "image_save", "index_read", "index_open", "index_dump"}
DeleteFaults == {"none", "index_read", "file_remove", "index_open", "index_dump"}

\* gallery.json after open(json_file_path, 'w') truncated it and json.dump failed
Truncated == [exists |-> TRUE, valid |-> FALSE, images |-> <<>>]

\* a seed of 0 is replaced like a missing one
gallery_seed_falsy(seed, random) == IF seed = None \/ seed = Some(0) THEN Some(random) ELSE seed

\* save_to_gallery: if seed is None: seed = random.randint(...)
gallery_seed(seed, random) == IF seed = None THEN Some(random) ELSE seed

\* save_to_gallery: image-{timestamp}.png, or .jpg for a JPEG
gallery_filename(timestamp, original_format) ==
    << "image", timestamp, IF original_format = "JPEG" THEN "jpg" ELSE "png" >>

\* the ids in an index
gallery_ids(images) == {images[i].id : i \in DOMAIN images}

\* save_to_gallery: next_id = max(id) + 1, or 1 (GalleryManager.get_next_id)
get_next_id(images) ==
    IF images = <<>> THEN 1
    ELSE (CHOOSE m \in gallery_ids(images) : \A k \in gallery_ids(images) : k <= m) + 1

\* save_to_gallery: new_image
new_image(request, next_id, filename, timestamp, random) ==
    [ id |-> next_id,
      url |-> filename,
      prompt |-> request["prompt"],
      negative_prompt |-> dict_get(request, "negative_prompt", Some("")),
      size |-> request["size"],
      seed |-> gallery_seed(dict_get(request, "seed", None), random),
      timestamp |-> timestamp,
      guidance_scale |-> dict_get(request, "guidance_scale", Some(5)),
      num_inference_steps |-> dict_get(request, "num_inference_steps", Some(20)) ]

\* the response of a gallery write, the files it leaves, the image file the
\* handler had written and the disk fault it met
gallery_outcome(status, image_id, json, files, written, fault) ==
    [ status |-> status, image_id |-> image_id, json |-> json, files |-> files,
      written |-> written, fault |-> fault ]

\* save_to_gallery
save_outcome(request, fault, random) ==
    IF \E field \in {"image_data", "prompt", "size"} : field \notin DOMAIN request
    THEN gallery_outcome(400, 0, gallery_json, image_files, None, "none")
    ELSE
    LET timestamp == gallery_clock
        original_format == request["image_data"][1]
        filename == gallery_filename(timestamp, original_format)
        files == image_files \cup {filename}
    IN  IF original_format = "bad"
        THEN gallery_outcome(500, 0, gallery_json, image_files, None, "none")
        ELSE IF fault = "image_save"
        THEN gallery_outcome(500, 0, gallery_json, files, None, fault)
        ELSE IF gallery_json.exists /\ (~ gallery_json.valid \/ fault = "index_read")
        THEN gallery_outcome(500, 0, gallery_json, files, Some(filename),
                             IF gallery_json.valid THEN fault ELSE "none")
        ELSE
        LET images == IF gallery_json.exists THEN gallery_json.images ELSE <<>>
            next_id == get_next_id(images)
            entry == new_image(request, next_id, filename, timestamp, random)
        IN  IF fault = "index_open"
            THEN gallery_outcome(500, 0, gallery_json, files \ {filename}, Some(filename), fault)
            ELSE IF fault = "index_dump"
            THEN gallery_outcome(500, 0, Truncated, files \ {filename}, Some(filename), fault)
            ELSE gallery_outcome(200, next_id,
                                 [exists |-> TRUE, valid |-> TRUE, images |-> Append(images, entry)],
                                 files, Some(filename), "none")

\* delete_from_gallery
delete_outcome(image_id, fault) ==
    IF ~ gallery_json.exists
    THEN gallery_outcome(404, 0, gallery_json, image_files, None, "none")
    ELSE IF ~ gallery_json.valid \/ fault = "index_read"
    THEN gallery_outcome(500, 0, gallery_json, image_files, None,
                         IF gallery_json.valid THEN fault ELSE "none")
    ELSE
    LET images == gallery_json.images
        found == SelectSeq(images, LAMBDA img : img.id = image_id)
    IN  IF found = <<>>
        THEN gallery_outcome(404, 0, gallery_json, image_files, None, "none")
        ELSE
        LET image_file_path == found[1].url
            files == IF fault = "file_remove" THEN image_files ELSE image_files \ {image_file_path}
            met == IF fault = "file_remove" /\ image_file_path \notin image_files THEN "none" ELSE fault
            kept == SelectSeq(images, LAMBDA img : img.id # image_id)
        IN  IF fault = "index_open"
            THEN gallery_outcome(500, 0, gallery_json, files, None, met)
            ELSE IF fault = "index_dump"
            THEN gallery_outcome(500, 0, Truncated, files, None, met)
            ELSE gallery_outcome(200, image_id, [gallery_json EXCEPT !.images = kept], files, None, met)

\* get_gallery: the GalleryResponse, or 500 when the index cannot be parsed
get_gallery ==
    IF ~ gallery_json.exists THEN [status |-> 200, images |-> <<>>, total_count |-> 0]
    ELSE IF ~ gallery_json.valid THEN [status |-> 500, images |-> <<>>, total_count |-> 0]
    ELSE LET gallery_images ==
                 [ i \in DOMAIN gallery_json.images |->
                     LET img_data == gallery_json.images[i]
                     IN  [ id |-> img_data.id,
                           image_url |-> img_data.url,
                           prompt |-> img_data.prompt,
                           negative_prompt |-> img_data.negative_prompt,
                           size |-> img_data.size,
                           seed |-> img_data.seed,
                           timestamp |-> img_data.timestamp,
                           guidance_scale |-> img_data.guidance_scale,
                           num_inference_steps |-> img_data.num_inference_steps ] ]
         IN  [status |-> 200, images |-> gallery_images, total_count |-> Len(gallery_images)]

\* one answered gallery call
gallery_call(op, arg, out) ==
    [ op |-> op, arg |-> arg, fault |-> out.fault, status |-> out.status, image_id |-> out.image_id,
      before |-> gallery_json, after |-> out.json, written |-> out.written ]

save_to_gallery ==
    /\ Len(gallery_log) < MaxGalleryCalls
    /\ \E request \in GalleryRequests, fault \in SaveFaults, random \in RandomSeeds :
          LET out == save_outcome(request, fault, random)
          IN  /\ gallery_json' = out.json
              /\ image_files' = out.files
              /\ gallery_log' = Append(gallery_log, gallery_call("save", request, out))
    /\ UNCHANGED << serviceVars, gallery_clock, gallery_running >>

delete_from_gallery ==
    /\ Len(gallery_log) < MaxGalleryCalls
    /\ \E image_id \in 1 .. MaxGalleryId, fault \in DeleteFaults :
          LET out == delete_outcome(image_id, fault)
          IN  /\ gallery_json' = out.json
              /\ image_files' = out.files
              /\ gallery_log' = Append(gallery_log, gallery_call("delete", image_id, out))
    /\ UNCHANGED << serviceVars, gallery_clock, gallery_running >>

\* a second passes on the clock the gallery handlers read
gallery_tick ==
    /\ gallery_clock < MaxGalleryClock
    /\ gallery_clock' = gallery_clock + 1
    /\ UNCHANGED << serviceVars, gallery_json, image_files, gallery_log, gallery_running >>

GalleryInit == InitWith({[r \in Clients |-> BasePayload]}) /\ ~ batch_enabled

GalleryNext == save_to_gallery \/ delete_from_gallery \/ gallery_tick

GallerySpec == GalleryInit /\ [][GalleryNext]_vars

(***************************************************************************)
(* Prompt optimize / translate (utils.py: clean_string, convert_prompt,    *)
(* translate_prompt; main.py: optimize_prompt, translate_prompt_api).  A   *)
(* string is the sequence of its characters.                               *)
(***************************************************************************)
PromptChars == {"a", " ", "\n"}
PromptStrings == UNION {[1 .. n -> PromptChars] : n \in 0 .. MaxPromptLen}

\* str.strip()
RECURSIVE str_strip(_)
str_strip(s) ==
    IF s = <<>> THEN s
    ELSE IF s[1] \in {" ", "\n"} THEN str_strip(Tail(s))
    ELSE IF s[Len(s)] \in {" ", "\n"} THEN str_strip(SubSeq(s, 1, Len(s) - 1))
    ELSE s

\* re.sub(r"\s{2,}", " ", s)
RECURSIVE collapse_whitespace(_)
collapse_whitespace(s) ==
    IF Len(s) < 2 THEN s
    ELSE IF s[1] \in {" ", "\n"} /\ s[2] \in {" ", "\n"}
         THEN collapse_whitespace(<< " " >> \o SubSeq(s, 3, Len(s)))
    ELSE << s[1] >> \o collapse_whitespace(Tail(s))

\* utils.clean_string
clean_string(s) ==
    collapse_whitespace(str_strip([i \in DOMAIN s |-> IF s[i] = "\n" THEN " " ELSE s[i]]))

\* what one client.chat.completions.create call does: it raises, or returns
\* a message whose content is None, empty, blank or a text
LLMRaises == [kind |-> "raise"]
LLMReturns(content) == [kind |-> "content", content |-> content]
LLMOutcomes ==
    { LLMRaises, LLMReturns(None), LLMReturns(Some(<<>>)), LLMReturns(Some(<< " " >>)),
      LLMReturns(Some(<< "b", "\n" >>)) }

\* if prompt: (None and the empty string are falsy)
truthy(prompt) == prompt # None /\ prompt[1] # <<>>

\* convert_prompt / translate_prompt: the for loop from attempt i on, prompt
\* being the value of the local variable
RECURSIVE retry_loop(_, _, _, _)
retry_loop(prompt, i, retry_times, outcomes) ==
    IF i > retry_times THEN prompt
    ELSE IF outcomes[i].kind = "raise" THEN retry_loop(prompt, i + 1, retry_times, outcomes)
    ELSE IF truthy(outcomes[i].content) THEN Some(clean_string(outcomes[i].content[1]))
    ELSE retry_loop(outcomes[i].content, i + 1, retry_times, outcomes)

\* a loop without the break: every attempt calls
RECURSIVE llm_calls_no_break(_, _, _)
llm_calls_no_break(i, retry_times, outcomes) ==
    IF i > retry_times THEN 0
    ELSE 1 + llm_calls_no_break(i + 1, retry_times, outcomes)

\* convert_prompt / translate_prompt: the number of times the for loop calls
\* client.chat.completions.create from attempt i on
RECURSIVE llm_calls(_, _, _)
llm_calls(i, retry_times, outcomes) ==
    IF i > retry_times THEN 0
    ELSE IF outcomes[i].kind = "raise" THEN 1 + llm_calls(i + 1, retry_times, outcomes)
    ELSE IF truthy(outcomes[i].content) THEN 1
    ELSE 1 + llm_calls(i + 1, retry_times, outcomes)

\* utils.convert_prompt (utils.translate_prompt has the same body but for the messages)
convert_prompt(prompt, retry_times, outcomes) ==
    retry_loop(Some(clean_string(prompt)), 1, retry_times, outcomes)

\* main.py: optimize_prompt / translate_prompt_api, whose bodies differ in
\* the messages only; client_raises: OpenAI(...) raises before the loop
prompt_endpoint(request, outcomes, client_raises, done, empty, failed) ==
    IF client_raises
    THEN [ original_prompt |-> request.prompt, result_prompt |-> request.prompt,
           success |-> FALSE, message |-> failed ]
    ELSE LET optimized_prompt == convert_prompt(request.prompt, request.retry_times, outcomes)
         IN  IF truthy(optimized_prompt) /\ str_strip(optimized_prompt[1]) # <<>>
             THEN [ original_prompt |-> request.prompt, result_prompt |-> optimized_prompt[1],
                    success |-> TRUE, message |-> done ]
             ELSE [ original_prompt |-> request.prompt, result_prompt |-> request.prompt,
                    success |-> FALSE, message |-> empty ]

\* the requests PromptOptimizationRequest / PromptTranslationRequest admit
PromptRequests == [prompt : PromptStrings, retry_times : 1 .. MaxRetries]

optimize_prompt ==
    /\ prompt_call = NoCall
    /\ \E request \in PromptRequests, client_raises \in BOOLEAN :
         \E outcomes \in [1 .. request.retry_times -> LLMOutcomes] :
            prompt_call' =
              [ endpoint |-> "optimize", request |-> request, outcomes |-> outcomes,
                client_raises |-> client_raises,
                response |-> prompt_endpoint(request, outcomes, client_raises,
                                "Prompt optimized successfully",
                                "Failed to optimize prompt - empty result",
                                "Optimization failed") ]
    /\ UNCHANGED << payload, batch_enabled, chunk_call, lifeVars, galleryVars, clientVars,
                    batchVars, request_queue, result_queue, dispatched, workerVars, emitted >>

translate_prompt_api ==
    /\ prompt_call = NoCall
    /\ \E request \in PromptRequests, client_raises \in BOOLEAN :
         \E outcomes \in [1 .. request.retry_times -> LLMOutcomes] :
            prompt_call' =
              [ endpoint |-> "translate", request |-> request, outcomes |-> outcomes,
                client_raises |-> client_raises,
                response |-> prompt_endpoint(request, outcomes, client_raises,
                                "Prompt translated successfully",
                                "Failed to translate prompt - empty result",
                                "Translation failed") ]
    /\ UNCHANGED << payload, batch_enabled, chunk_call, lifeVars, galleryVars, clientVars,
                    batchVars, request_queue, result_queue, dispatched, workerVars, emitted >>

PromptInit == InitWith({[r \in Clients |-> BasePayload]}) /\ ~ batch_enabled

PromptNext == optimize_prompt \/ translate_prompt_api

PromptSpec == PromptInit /\ [][PromptNext]_vars

(***************************************************************************)
(* The gallery handlers as the event loop runs them (main.py: async def    *)
(* save_to_gallery / delete_from_gallery, uvicorn.run(workers=1)).  A      *)
(* handler is split at the point between reading and rewriting             *)
(* gallery.json; it holds no await, so the loop gives no other handler a   *)
(* turn in between.  No disk fault occurs in these runs.                   *)
(***************************************************************************)
\* a handler may be entered while another one is between its read and its write
loop_gives_turn_any(t) == TRUE

\* the event loop runs a coroutine up to its next await or its return
loop_gives_turn(t) == \A u \in GalleryTasks \ {t} : gallery_running[u] = NoTask

\* the prompts of the saves, one per save
LoopPrompts == {"p", "q", "r"}
PromptsUsed ==
    {gallery_log[i].arg["prompt"][1] : i \in {j \in DOMAIN gallery_log : gallery_log[j].op = "save"}}
    \cup {gallery_running[t].arg["prompt"][1] : t \in {u \in GalleryTasks : gallery_running[u].op = "save"}}

CallsStarted == Len(gallery_log) + Cardinality({t \in GalleryTasks : gallery_running[t] # NoTask})

\* save_to_gallery up to json.load: the image file is written, the index read
save_read(t) ==
    /\ gallery_running[t] = NoTask /\ loop_gives_turn(t)
    /\ CallsStarted < MaxLoopCalls
    /\ \E prompt \in LoopPrompts \ PromptsUsed :
          LET request == [FullSave EXCEPT !.prompt = Some(prompt)]
              timestamp == gallery_clock
              filename == gallery_filename(timestamp, request["image_data"][1])
          IN  /\ image_files' = image_files \cup {filename}
              /\ gallery_running' = [gallery_running EXCEPT ![t] =
                    [ op |-> "save", arg |-> request, read |-> gallery_json,
                      filename |-> filename, timestamp |-> timestamp ]]
    /\ UNCHANGED << serviceVars, gallery_json, gallery_clock, gallery_log >>

\* save_to_gallery from next_id to the response
save_write(t) ==
    /\ gallery_running[t].op = "save" /\ loop_gives_turn(t)
    /\ LET held == gallery_running[t]
           images == IF held.read.exists THEN held.read.images ELSE <<>>
           next_id == get_next_id(images)
           entry == new_image(held.arg, next_id, held.filename, held.timestamp, 0)
           json == [exists |-> TRUE, valid |-> TRUE, images |-> Append(images, entry)]
       IN  /\ gallery_json' = json
           /\ gallery_log' = Append(gallery_log,
                  [ op |-> "save", arg |-> held.arg, fault |-> "none", status |-> 200,
                    image_id |-> next_id, before |-> held.read, after |-> json,
                    written |-> Some(held.filename) ])
    /\ gallery_running' = [gallery_running EXCEPT ![t] = NoTask]
    /\ UNCHANGED << serviceVars, image_files, gallery_clock >>

\* delete_from_gallery up to the lookup: 404 at once, or the entry is found
delete_read(t) ==
    /\ gallery_running[t] = NoTask /\ loop_gives_turn(t)
    /\ CallsStarted < MaxLoopCalls
    /\ \E image_id \in 1 .. MaxGalleryId :
          IF gallery_json.exists /\ image_id \in gallery_ids(gallery_json.images)
          THEN /\ gallery_running' = [gallery_running EXCEPT ![t] =
                     [op |-> "delete", arg |-> image_id, read |-> gallery_json]]
               /\ UNCHANGED gallery_log
          ELSE /\ gallery_log' = Append(gallery_log,
                     [ op |-> "delete", arg |-> image_id, fault |-> "none", status |-> 404,
                       image_id |-> 0, before |-> gallery_json, after |-> gallery_json,
                       written |-> None ])
               /\ UNCHANGED gallery_running
    /\ UNCHANGED << serviceVars, gallery_json, image_files, gallery_clock >>

\* delete_from_gallery from os.remove to the response
delete_write(t) ==
    /\ gallery_running[t].op = "delete" /\ loop_gives_turn(t)
    /\ LET held == gallery_running[t]
           found == SelectSeq(held.read.images, LAMBDA img : img.id = held.arg)
           kept == SelectSeq(held.read.images, LAMBDA img : img.id # held.arg)
           json == [held.read EXCEPT !.images = kept]
       IN  /\ image_files' = image_files \ {found[1].url}
           /\ gallery_json' = json
           /\ gallery_log' = Append(gallery_log,
                  [ op |-> "delete", arg |-> held.arg, fault |-> "none", status |-> 200,
                    image_id |-> held.arg, before |-> held.read, after |-> json,
                    written |-> None ])
    /\ gallery_running' = [gallery_running EXCEPT ![t] = NoTask]
    /\ UNCHANGED << serviceVars, gallery_clock >>

GalleryLoopNext ==
    \/ \E t \in GalleryTasks : save_read(t)
    \/ \E t \in GalleryTasks : save_write(t)
    \/ \E t \in GalleryTasks : delete_read(t)
    \/ \E t \in GalleryTasks : delete_write(t)
    \/ gallery_tick

GalleryLoopSpec == GalleryInit /\ [][GalleryLoopNext]_vars


(***************************************************************************)
(* Properties.                                                             *)
(***************************************************************************)
Range(f) == {f[i] : i \in DOMAIN f}

Width(r) == parse_size(payload[r].size)[1]
Height(r) == parse_size(payload[r].size)[2]

\* the request ids held in pending buckets, on the request channel, dispatched
PendingIds ==
    UNION {{pending_requests[k][i].request_id : i \in DOMAIN pending_requests[k]} : k \in DOMAIN pending_requests}
QueuedIds == UNION {Range(targets(request_queue[i])) : i \in DOMAIN request_queue}
DispatchedIds == UNION {Range(targets(dispatched[i])) : i \in DOMAIN dispatched}

\* the dispatched messages that carry request r
MessagesOf(r) == {i \in DOMAIN dispatched : r \in Range(targets(dispatched[i]))}

\* the position (1-based) of request r among the request ids of a message
PositionIn(msg, r) == CHOOSE i \in DOMAIN targets(msg) : targets(msg)[i] = r

\* the frames written for r, by type
ImageFrames(r) == SelectSeq(body[r], LAMBDA f : f.type = "image")
HasDone(r) == payload[r].stream /\ \E i \in DOMAIN body[r] : body[r][i].type = "done"
HasError(r) == payload[r].stream /\ \E i \in DOMAIN body[r] : body[r][i].type = "error"

\* C8: a request with width*height*n >= MAX_TOTAL_PIXELS is answered 400 and
\* never enters active_requests, a pending bucket or the request channel; a
\* request below the cap is admitted.
C8_VramGuard ==
    \A r \in Clients :
        IF Width(r) * Height(r) * payload[r].n >= MAX_TOTAL_PIXELS
        THEN /\ pc[r] \in {"new", "rejected"}
             /\ pc[r] = "rejected" => http_status[r] = 400
             /\ r \notin active_requests
             /\ r \notin PendingIds
             /\ r \notin QueuedIds
             /\ r \notin DispatchedIds
        ELSE /\ pc[r] \in {"new", "waiting", "done"}
             /\ http_status[r] # 400
             /\ pc[r] # "new" => r \in PendingIds \cup DispatchedIds
             /\ pc[r] = "waiting" => r \in active_requests

\* a request of exactly MAX_TOTAL_PIXELS has been rejected while a request
\* just below the cap is being served
C8_Witness ==
    \E r, q \in Clients :
        /\ Width(r) * Height(r) * payload[r].n = MAX_TOTAL_PIXELS
        /\ pc[r] = "rejected"
        /\ Width(q) * Height(q) * payload[q].n = MAX_TOTAL_PIXELS \div 2
        /\ pc[q] = "done" /\ http_status[q] = 200

\* C9: every successful response reports a seed that is not null, and the
\* seed the request supplied when it supplied one; for the images of a JSON
\* response and for the frames of a stream, alone or in a batch.
C9_SeedReported ==
    \A r \in Clients :
        /\ (~ payload[r].stream /\ http_status[r] = 200) =>
              \A k \in DOMAIN body[r] :
                  /\ body[r][k].seed # None
                  /\ payload[r].seed # None => body[r][k].seed = payload[r].seed
        /\ payload[r].stream =>
              \A k \in DOMAIN body[r] :
                  body[r][k].type = "image" =>
                      /\ body[r][k].seed # None
                      /\ payload[r].seed # None => body[r][k].seed = payload[r].seed

\* both members of a batch of two seeded non-stream requests have their response
C9_Witness ==
    \E i \in DOMAIN dispatched :
        /\ dispatched[i].kind = "batch"
        /\ Len(dispatched[i].request_ids) = 2
        /\ ~ dispatched[i].stream
        /\ dispatched[i].seeds[1] # None
        /\ \A r \in Range(dispatched[i].request_ids) : http_status[r] = 200 /\ body[r] # <<>>

\* C10: a successful non-stream request for n images gets exactly n images,
\* the pipeline outputs at positions i*n .. i*n+n-1 when it is member i of
\* its message; no image goes to two requests.
C10_ImageSlices ==
    /\ \A r \in Clients :
          (~ payload[r].stream /\ http_status[r] = 200) =>
              /\ Len(body[r]) = payload[r].n
              /\ \E m \in MessagesOf(r) :
                    \A k \in 1 .. payload[r].n :
                        body[r][k].b64_json =
                            [ call |-> pipeline_id(dispatched[m]),
                              pos |-> (PositionIn(dispatched[m], r) - 1) * payload[r].n + (k - 1) ]
    /\ \A r, q \in Clients :
          (r # q /\ ~ payload[r].stream /\ ~ payload[q].stream
                 /\ http_status[r] = 200 /\ http_status[q] = 200) =>
              {body[r][k].b64_json : k \in DOMAIN body[r]}
                  \cap {body[q][k].b64_json : k \in DOMAIN body[q]} = {}

\* both members of a batch of two requests for two images each have their response
C10_Witness ==
    \E i \in DOMAIN dispatched :
        /\ dispatched[i].kind = "batch"
        /\ Len(dispatched[i].request_ids) = 2
        /\ dispatched[i].num_images = 2
        /\ ~ dispatched[i].stream
        /\ \A r \in Range(dispatched[i].request_ids) : http_status[r] = 200 /\ Len(body[r]) = 2


\* the request ids a worker has reported an error for
ErrorReported == {emitted[i].request_id : i \in {j \in DOMAIN emitted : emitted[j].result_type = "error"}}

\* C7: once a request a worker reported an error for has its outcome, a
\* non-stream request is answered 500 and a stream has exactly one error
\* frame, directly followed by [DONE] as its last line, with no image frame
\* after the error frame.
C7_ErrorOutcome ==
    \A r \in Clients :
        /\ (r \in ErrorReported /\ pc[r] = "done" /\ ~ payload[r].stream) => http_status[r] = 500
        /\ (r \in ErrorReported /\ pc[r] = "done" /\ payload[r].stream) =>
              /\ Len(body[r]) >= 2
              /\ body[r][Len(body[r])].type = "done"
              /\ body[r][Len(body[r]) - 1].type = "error"
              /\ \A i \in 1 .. (Len(body[r]) - 2) : body[r][i].type = "image"

\* the positions of the [DONE] lines in the body of r
DonePositions(r) == {i \in DOMAIN body[r] : body[r][i].type = "done"}

\* C1: a non-stream request gets no response while it waits and one of 200
\* or 500 once; a stream gets at most one [DONE] line, nothing after it, and
\* the line before it is a frame with is_final = true or an error frame.
C1_OneTerminalOutcome ==
    \A r \in Clients :
        IF payload[r].stream
        THEN /\ Cardinality(DonePositions(r)) <= 1
             /\ pc[r] = "done" => Cardinality(DonePositions(r)) = 1
             /\ \A i \in DonePositions(r) :
                   /\ i = Len(body[r])
                   /\ i >= 2
                   /\ \/ body[r][i - 1].type = "error"
                      \/ body[r][i - 1].type = "image" /\ body[r][i - 1].is_final
        ELSE /\ pc[r] = "waiting" => http_status[r] = 0
             /\ pc[r] = "done" => http_status[r] \in {200, 500}

\* C2: under fair scheduling of the batch ticker, the workers and the
\* consumer tasks, every admitted request that waits for its outcome
\* eventually gets it.
C2_EventualOutcome == \A r \in Clients : (pc[r] = "waiting") ~> (pc[r] = "done")

\* C3: of any two frames written to the same stream, the earlier has the
\* smaller or equal step, and for equal steps the smaller or equal image_index.
C3_FrameOrder ==
    \A r \in Clients :
        payload[r].stream =>
            LET fs == ImageFrames(r)
            IN  \A i, j \in DOMAIN fs :
                    i < j => /\ fs[i].step <= fs[j].step
                             /\ fs[i].step = fs[j].step => fs[i].image_index <= fs[j].image_index

\* C4: every frame has 0 <= step <= steps-1 and progress = (step+1)/steps; in
\* a stream that ended without an error frame the last frame before [DONE]
\* has is_final = true and step = steps-1.
C4_StepAndProgress ==
    \A r \in Clients :
        payload[r].stream =>
            LET steps == payload[r].num_inference_steps
                fs == ImageFrames(r)
            IN  /\ \A i \in DOMAIN fs :
                      /\ 0 <= fs[i].step /\ fs[i].step <= steps - 1
                      /\ fs[i].progress = << fs[i].step + 1, steps >>
                /\ (HasDone(r) /\ ~ HasError(r)) =>
                      /\ fs # <<>>
                      /\ fs[Len(fs)].is_final
                      /\ fs[Len(fs)].step = steps - 1

\* the chunked results the workers put for r, and the frames of one chunk_id
\* written to r, in the order written
ChunkedPut(r) ==
    {i \in DOMAIN emitted : /\ emitted[i].request_id = r
                            /\ emitted[i].result_type = "streaming_step"
                            /\ emitted[i].data.is_chunked}
FramesOfChunk(r, id) == SelectSeq(ImageFrames(r), LAMBDA f : f.chunk_id = Some(id))

\* C5: when a stream has ended without an error frame, then for every
\* chunked image the workers emitted for it the body holds exactly
\* total_chunks frames of that chunk_id, with chunk_index 0, 1, ...,
\* total_chunks-1 in this order.
C5_ChunksComplete ==
    \A r \in Clients :
        (payload[r].stream /\ HasDone(r) /\ ~ HasError(r)) =>
            \A i \in ChunkedPut(r) :
                LET fs == FramesOfChunk(r, emitted[i].data.chunk_id)
                IN  /\ Len(fs) = emitted[i].data.total_chunks
                    /\ \A k \in DOMAIN fs : fs[k].chunk_index = Some(k - 1)


(***************************************************************************)
(* send_chunked_image on its own: one call per step of ChunkSpec, over     *)
(* string lengths around every multiple of max_chunk_size.                 *)
(***************************************************************************)
ChunkLengths ==
    {k * max_chunk_size + d : k \in 0 .. MaxChunks, d \in {-1, 0, 1}} \ {-1}

\* the target lists tried: every non-empty list of distinct request ids
TargetLists == UNION {Orderings(S) : S \in (SUBSET Clients) \ {{}}}

send_chunked_image_call ==
    /\ \E len \in ChunkLengths, step_index \in 0 .. (NumSteps - 1), image_idx \in 0 .. 1,
          ids \in TargetLists :
          LET request_info == [ request_ids |-> ids, num_inference_steps |-> NumSteps,
                                num_images |-> 2, seed |-> Some(7) ]
          IN  chunk_call' =
                [ len |-> len, request_ids |-> ids, step_index |-> step_index,
                  image_idx |-> image_idx,
                  out |-> send_chunked_image(len, step_index, step_index = NumSteps - 1,
                                             image_idx, request_info) ]
    /\ UNCHANGED << payload, batch_enabled, prompt_call, lifeVars, galleryVars, clientVars,
                    batchVars, request_queue, result_queue, dispatched, workerVars, emitted >>

ChunkInit ==
    /\ InitWith({[r \in Clients |-> Payload(1, "512x512", FALSE, None)]})
    /\ batch_enabled

ChunkNext == send_chunked_image_call

ChunkSpec == ChunkInit /\ [][ChunkNext]_vars

\* the results of the call put for one request id, in the order they were put
PutFor(t) == SelectSeq(chunk_call.out, LAMBDA e : e.request_id = t)

\* C6: for every target request, send_chunked_image puts a single frame with
\* is_chunked = false iff the string is at most 400 KiB long; otherwise it
\* puts ceil(len / 400 KiB) frames of at most 400 KiB each whose slices,
\* joined in chunk_index order, are the whole string.
C6_Chunking ==
    chunk_call # NoCall =>
        \A t \in Range(chunk_call.request_ids) :
            LET fs == PutFor(t)
                len == chunk_call.len
                KiB400 == 400 * 1024
                m == CHOOSE c \in 0 .. (MaxChunks + 2) : c * KiB400 >= len /\ (c - 1) * KiB400 < len
            IN  IF len <= KiB400
                THEN /\ Len(fs) = 1
                     /\ ~ fs[1].data.is_chunked
                     /\ fs[1].data.image = << 0, len >>
                ELSE /\ Len(fs) = m
                     /\ \A i \in 1 .. Len(fs) :
                           /\ fs[i].data.is_chunked
                           /\ fs[i].data.chunk_index = i - 1
                           /\ fs[i].data.total_chunks = m
                           /\ fs[i].data.chunk_id = fs[1].data.chunk_id
                           /\ fs[i].data.image[2] - fs[i].data.image[1] <= KiB400
                           /\ fs[i].data.image[2] > fs[i].data.image[1]
                     /\ fs[1].data.image[1] = 0
                     /\ fs[Len(fs)].data.image[2] = len
                     /\ \A i \in 1 .. (Len(fs) - 1) : fs[i].data.image[2] = fs[i + 1].data.image[1]

\* a string one character longer than two chunks went to two requests in three chunks each
C6_Witness ==
    /\ chunk_call # NoCall
    /\ chunk_call.len = 2 * max_chunk_size + 1
    /\ Len(chunk_call.request_ids) = 2
    /\ Len(chunk_call.out) = 6


(***************************************************************************)
(* Batching.                                                               *)
(***************************************************************************)
\* the requests of a message, and the pending bucket or dispatched batch that holds r
BucketOf(r) == {k \in DOMAIN pending_requests :
                   \E i \in DOMAIN pending_requests[k] : pending_requests[k][i].request_id = r}
BatchOf(r) == {i \in DOMAIN dispatched :
                  dispatched[i].kind = "batch" /\ r \in Range(dispatched[i].request_ids)}

\* r and q wait in the same bucket or were dispatched in the same batch
Together(r, q) == BucketOf(r) \cap BucketOf(q) # {} \/ BatchOf(r) \cap BatchOf(q) # {}

\* this step admits q while r waits in the bucket of q's batch key, less than
\* BATCH_TIMEOUT after the bucket was opened
JoinsInTime(r, q) ==
    /\ r # q
    /\ pc[q] = "new" /\ pc'[q] = "waiting"
    /\ batch_enabled
    /\ LET key == get_batch_key(GenerationRequest(q, payload[q], payload[q].stream))
       IN  /\ key \in BucketOf(r)
           /\ batch_timers[key] < BATCH_TIMEOUT

\* the projected pixel count add_request computes when q arrives
ProjectedPixels(q) ==
    LET request == GenerationRequest(q, payload[q], payload[q].stream)
        key == get_batch_key(request)
    IN  request.width * request.height * request.num_images * (Len(pending_requests[key]) + 1)

\* a worker processes whole messages: what it holds is one dispatched message
OneInvocation ==
    \A w \in Workers : wpc[w] = "pipeline" => wmsg[w] \in Range(dispatched)

\* C11 as stated: a request admitted while a same-key request waits in its
\* bucket, less than BATCH_TIMEOUT old, is in the same batch with it from
\* then on, and a batch is processed by one worker invocation.
C11_SameBatch ==
    [][\A r, q \in Clients :
          (JoinsInTime(r, q) \/ Together(r, q)) => (Together(r, q))' /\ OneInvocation']_vars

\* C11 amended: the same, when the projected pixel count of the bucket with
\* the arriving request stays below MAX_TOTAL_PIXELS; when it does not, the
\* bucket is dispatched without the arriving request.
C11_SameBatchBelowCap ==
    [][\A r, q \in Clients :
          /\ (JoinsInTime(r, q) /\ ProjectedPixels(q) < MAX_TOTAL_PIXELS) => (Together(r, q))'
          /\ (JoinsInTime(r, q) /\ ProjectedPixels(q) >= MAX_TOTAL_PIXELS) =>
                 (BatchOf(r) # {} /\ BucketOf(q) # {})'
          /\ Together(r, q) => (Together(r, q))'
          /\ OneInvocation']_vars

\* two requests were dispatched in one batch of two and a worker holds that batch
C11_Witness ==
    \E w \in Workers :
        /\ wpc[w] = "pipeline"
        /\ wmsg[w].kind = "batch"
        /\ Len(wmsg[w].request_ids) = 2

\* the fields of the batch key, read off the request the client sent
KeyFields(r) ==
    [ width |-> Width(r), height |-> Height(r),
      guidance_scale |-> payload[r].guidance_scale,
      num_inference_steps |-> payload[r].num_inference_steps,
      stream |-> payload[r].stream, n |-> payload[r].n, seed |-> payload[r].seed ]

\* the groups of request ids held together: pending buckets and dispatched batches
Groups ==
    {{pending_requests[k][i].request_id : i \in DOMAIN pending_requests[k]} : k \in DOMAIN pending_requests}
    \cup {Range(dispatched[i].request_ids) : i \in {j \in DOMAIN dispatched : dispatched[j].kind = "batch"}}

\* C12: any two requests of one bucket or batch agree on width, height,
\* guidance_scale, num_inference_steps, stream, n and seed; the batch
\* carries these values.
C12_SameKey ==
    /\ \A g \in Groups : \A r, q \in g : KeyFields(r) = KeyFields(q)
    /\ \A i \in DOMAIN dispatched :
          dispatched[i].kind = "batch" =>
              \A r \in Range(dispatched[i].request_ids) :
                  /\ dispatched[i].width = Width(r) /\ dispatched[i].height = Height(r)
                  /\ dispatched[i].guidance_scale = payload[r].guidance_scale
                  /\ dispatched[i].num_inference_steps = payload[r].num_inference_steps
                  /\ dispatched[i].stream = payload[r].stream
                  /\ dispatched[i].num_images = payload[r].n

\* a batch of two requests with different prompts and different negative prompts
C12_Witness ==
    \E i \in DOMAIN dispatched :
        /\ dispatched[i].kind = "batch"
        /\ Len(dispatched[i].request_ids) = 2
        /\ dispatched[i].prompts[1] # dispatched[i].prompts[2]
        /\ dispatched[i].negative_prompts[1] # dispatched[i].negative_prompts[2]
        /\ dispatched[i].negative_prompts[1] # None
        /\ dispatched[i].negative_prompts[2] # None

\* C13: the negative-prompt list a worker passes to the pipeline for a batch
\* has one slot per request, in request order: the empty string where the
\* client sent no negative prompt, the client's string otherwise; the batch
\* itself carries the negative prompts as sent.
C13_NegativePrompts ==
    \A w \in Workers :
        (wpc[w] = "pipeline" /\ wmsg[w].kind = "batch") =>
            LET ids == wmsg[w].request_ids
                passed == pipeline_kwargs(wmsg[w]).negative_prompt
            IN  /\ Len(passed) = Len(ids)
                /\ Len(wmsg[w].negative_prompts) = Len(ids)
                /\ \A i \in DOMAIN ids :
                      /\ wmsg[w].negative_prompts[i] = payload[ids[i]].negative_prompt
                      /\ payload[ids[i]].negative_prompt = None => passed[i] = ""
                      /\ payload[ids[i]].negative_prompt # None =>
                             Some(passed[i]) = payload[ids[i]].negative_prompt

\* a worker runs a batch of a request without negative prompt and a
\* same-key request with one
C13_Witness ==
    \E w \in Workers :
        /\ wpc[w] = "pipeline" /\ wmsg[w].kind = "batch"
        /\ Len(wmsg[w].request_ids) = 2
        /\ \E i, j \in DOMAIN wmsg[w].request_ids :
              /\ wmsg[w].negative_prompts[i] = None
              /\ wmsg[w].negative_prompts[j] # None

(***************************************************************************)
(* Pool life cycle.                                                        *)
(***************************************************************************)
\* the workers that loaded their model and still run
LiveReady == {w \in Workers : worker_model_loaded[w] /\ wpc[w] \notin {"killed", "exited"}}

\* C14: with two workers of which one, ready, has been killed, /health
\* reports the one ready worker that is left and not the full pool.
C14_HealthCountsLiveWorkers ==
    (num_workers = 2 /\ ~ shutdown_event /\ \E w \in Workers : wpc[w] = "killed") =>
        /\ Cardinality(LiveReady) <= 1
        /\ health_check.workers_ready <=> Cardinality(LiveReady) = health_check.total_workers

\* every worker's model-loaded flag is true
AllFlagsTrue == \A w \in Workers : worker_model_loaded[w]

FinalReported ==
    {emitted[i].request_id : i \in {j \in DOMAIN emitted : emitted[j].result_type \in {"completed", "error"}}}

\* C16: once shutdown() has stopped the workers, all of which had loaded
\* their model and none of which was killed, every request it flushed out
\* of a pending bucket has had its final result from a worker.
C16_FlushedComplete ==
    (shutdown_event /\ AllFlagsTrue /\ \A w \in Workers : wpc[w] = "exited") =>
        flushed_on_shutdown \subseteq FinalReported

(***************************************************************************)
(* Gallery store.                                                          *)
(***************************************************************************)
\* the gallery call answered last
LastCall == gallery_log[Len(gallery_log)]

\* the ids GET /v1/gallery lists
ListedIds == {get_gallery.images[i].id : i \in DOMAIN get_gallery.images}

\* no gallery call so far met a disk fault
NoGalleryFault == \A i \in DOMAIN gallery_log : gallery_log[i].fault = "none"

\* C17: right after a save answered 200 with image_id k the gallery lists
\* k; right after a DELETE k answered 200 it does not; and, no disk fault
\* having occurred, every later DELETE k is answered 404 and leaves the
\* index as it was.
C17_Lifecycle ==
    /\ (gallery_log # <<>> /\ LastCall.op = "save" /\ LastCall.status = 200) =>
            get_gallery.status = 200 /\ LastCall.image_id \in ListedIds
    /\ (gallery_log # <<>> /\ LastCall.op = "delete" /\ LastCall.status = 200) =>
            get_gallery.status = 200 /\ LastCall.arg \notin ListedIds
    /\ NoGalleryFault =>
            \A i, j \in DOMAIN gallery_log :
                ( /\ i < j
                  /\ gallery_log[i].op = "delete" /\ gallery_log[i].status = 200
                  /\ gallery_log[j].op = "delete"
                  /\ gallery_log[j].arg = gallery_log[i].arg ) =>
                    /\ gallery_log[j].status = 404
                    /\ gallery_log[j].after = gallery_log[j].before

\* C18: the id a save returns is greater than the id every earlier save
\* returned, whether or not that entry has been deleted since.
C18_IdsNeverReused ==
    \A i, j \in DOMAIN gallery_log :
        ( /\ i < j
          /\ gallery_log[i].op = "save" /\ gallery_log[i].status = 200
          /\ gallery_log[j].op = "save" /\ gallery_log[j].status = 200 ) =>
            gallery_log[j].image_id > gallery_log[i].image_id

\* the parameters of a gallery entry a client can give
GalleryParameters ==
    {"prompt", "negative_prompt", "size", "seed", "guidance_scale", "num_inference_steps"}

\* the last call is a save answered 200 whose body gave every parameter
SavedWithAllGiven ==
    /\ gallery_log # <<>>
    /\ LastCall.op = "save" /\ LastCall.status = 200
    /\ \A key \in GalleryParameters : key \in DOMAIN LastCall.arg /\ LastCall.arg[key] # None

\* C19: right after a save that gave prompt, negative_prompt, size, seed,
\* guidance_scale and num_inference_steps, GET /v1/gallery lists exactly one
\* entry with the returned id, and these six fields of it equal the saved ones.
C19_SaveThenRead ==
    SavedWithAllGiven =>
        LET found == SelectSeq(get_gallery.images, LAMBDA img : img.id = LastCall.image_id)
        IN  /\ get_gallery.status = 200
            /\ Len(found) = 1
            /\ found[1].prompt = LastCall.arg["prompt"]
            /\ found[1].negative_prompt = LastCall.arg["negative_prompt"]
            /\ found[1].size = LastCall.arg["size"]
            /\ found[1].seed = LastCall.arg["seed"]
            /\ found[1].guidance_scale = LastCall.arg["guidance_scale"]
            /\ found[1].num_inference_steps = LastCall.arg["num_inference_steps"]

\* a save with seed 0 and every other parameter given is read back from a
\* gallery that held an entry already
C19_Witness ==
    /\ SavedWithAllGiven
    /\ LastCall.arg["seed"] = Some(0)
    /\ LastCall.before.exists /\ LastCall.before.images # <<>>
    /\ get_gallery.total_count >= 2

\* C20: right after a save that failed once its image file was written, the
\* answer is 500, the file it wrote is gone and gallery.json is what it was
\* before the save.
C20_FailedSaveRollsBack ==
    (gallery_log # <<>> /\ LastCall.op = "save" /\ LastCall.status # 200 /\ LastCall.written # None) =>
        /\ LastCall.status = 500
        /\ LastCall.written[1] \notin image_files
        /\ gallery_json = LastCall.before

(***************************************************************************)
(* Gallery store under requests in flight together.                        *)
(***************************************************************************)
\* the entry a save answered 200 put into the index
SavedEntry(call) == call.after.images[Len(call.after.images)]

\* a DELETE answered 200 for id k comes after call i
DeletedLater(i, k) ==
    \E j \in DOMAIN gallery_log :
        j > i /\ gallery_log[j].op = "delete" /\ gallery_log[j].status = 200 /\ gallery_log[j].arg = k

\* the entries of gallery.json
IndexEntries == {gallery_json.images[i] : i \in DOMAIN gallery_json.images}

\* C21: whatever the order in which gallery saves and deletes in flight
\* together are run, every handler rewrites the index from what the handler
\* before it left; an entry a save answered 200 for stays in the index
\* until a DELETE of its id is answered 200; an entry so deleted is not in
\* the index afterwards; and no two entries of the index have the same id.
C21_IndexSerialized ==
    /\ \A i \in DOMAIN gallery_log :
          gallery_log[i].before = IF i = 1 THEN NoFile ELSE gallery_log[i - 1].after
    /\ gallery_log # <<>> => gallery_json = LastCall.after
    /\ \A i \in DOMAIN gallery_log :
          (gallery_log[i].op = "save" /\ gallery_log[i].status = 200) =>
              (SavedEntry(gallery_log[i]) \in IndexEntries
                  <=> ~ DeletedLater(i, gallery_log[i].image_id))
    /\ \A i, j \in DOMAIN gallery_json.images :
          gallery_json.images[i].id = gallery_json.images[j].id => i = j

\* MaxLoopCalls calls have been answered, a DELETE answered 200 among them,
\* and two entries are left in the index
C21_Witness ==
    /\ Len(gallery_log) = MaxLoopCalls
    /\ Len(gallery_json.images) = 2
    /\ \E i \in DOMAIN gallery_log :
          gallery_log[i].op = "delete" /\ gallery_log[i].status = 200 /\ i < MaxLoopCalls

(***************************************************************************)
(* Prompt optimize / translate.                                            *)
(***************************************************************************)
\* every call to the external LLM raised
EveryLLMCallRaised ==
    \A i \in DOMAIN prompt_call.outcomes : prompt_call.outcomes[i].kind = "raise"

\* C22: when every call to the external LLM fails, the optimize and
\* translate endpoints answer with the original prompt, success = false and
\* a message.
C22_NeverFailsHard ==
    (prompt_call # NoCall /\ EveryLLMCallRaised) =>
        /\ prompt_call.response.success = FALSE
        /\ prompt_call.response.result_prompt = prompt_call.request.prompt
        /\ prompt_call.response.original_prompt = prompt_call.request.prompt
        /\ prompt_call.response.message # ""

(***************************************************************************)
(* Dispatch of result events.                                              *)
(***************************************************************************)
\* an event of a request whose consumer has ended is on the channel: no
\* consumer will ever take it
Stranded == {i \in DOMAIN result_queue : pc[result_queue[i].request_id] = "done"}

\* C23: no event is left on the result channel for a request whose consumer
\* has ended, so that every event put is consumed by the consumer of its
\* request_id; and a consumer adds to its response or ends only on an
\* event tagged with its own request_id.
C23_NoEventDropped ==
    /\ [](Stranded = {})
    /\ [][\A r \in Clients :
            (pc[r] = "waiting" /\ (body'[r] # body[r] \/ pc'[r] = "done")) =>
                (result_queue # <<>> /\ Head(result_queue).request_id = r)]_vars

\* the positions in emitted of the terminal events sent for request r
TerminalEvents(r) == {i \in DOMAIN emitted : emitted[i].request_id = r /\ is_terminal(emitted[i])}

\* a worker took the message of request r off the request channel and is
\* through with it
WorkerDoneWith(r) ==
    /\ \E i \in DOMAIN dispatched : r \in Range(targets(dispatched[i]))
    /\ \A i \in DOMAIN request_queue : r \notin Range(targets(request_queue[i]))
    /\ \A w \in Workers : wpc[w] = "pipeline" => r \notin Range(targets(wmsg[w]))

\* C24: a worker sends every request id of a message it processes one
\* terminal event, completed or error: never a second one, and one once it
\* is through with the message.
C24_OneTerminalEvent ==
    \A r \in Clients :
        /\ Cardinality(TerminalEvents(r)) <= 1
        /\ WorkerDoneWith(r) => Cardinality(TerminalEvents(r)) = 1

(***************************************************************************)
(* Batch Manager: what a bucket and a batch hold.                          *)
(***************************************************************************)
\* the batches put on the request channel so far
BatchesPushed == {i \in DOMAIN dispatched : dispatched[i].kind = "batch"}

\* C25: every batch put on the request channel, whether add_request, the
\* timeout sweep or shutdown() flushed it, has width * height * n * |batch|
\* below MAX_TOTAL_PIXELS, and so has every pending bucket.
C25_BatchBelowCap ==
    /\ \A i \in BatchesPushed :
          dispatched[i].width * dispatched[i].height * dispatched[i].num_images
              * Len(dispatched[i].request_ids) < MAX_TOTAL_PIXELS
    /\ \A k \in DOMAIN pending_requests :
          \A j \in DOMAIN pending_requests[k] :
              pending_requests[k][j].width * pending_requests[k][j].height
                  * pending_requests[k][j].num_images * Len(pending_requests[k]) < MAX_TOTAL_PIXELS

\* two requests of two megapixels each were pushed in two batches of one:
\* the first by the VRAM test of add_request, the second by shutdown()
C25_Witness ==
    /\ Cardinality(BatchesPushed) = 2
    /\ \A i \in BatchesPushed :
          /\ Len(dispatched[i].request_ids) = 1
          /\ dispatched[i].width * dispatched[i].height * dispatched[i].num_images * 2 = MAX_TOTAL_PIXELS
    /\ Cardinality(flushed_on_shutdown) = 1

\* the batch key of the request of client r
KeyOf(r) == get_batch_key(GenerationRequest(r, payload[r], payload[r].stream))

\* the request of client r fills its bucket: the bucket holds MAX_BATCH_SIZE - 1
\* requests and the VRAM test lets the request join them
FillsBucket(r) ==
    LET request == GenerationRequest(r, payload[r], payload[r].stream)
        batch_key == KeyOf(r)
    IN  /\ batch_enabled
        /\ batch_key \in DOMAIN pending_requests
        /\ Len(pending_requests[batch_key]) = MAX_BATCH_SIZE - 1
        /\ ~ vram_cap_reached(request.width * request.height * request.num_images * MAX_BATCH_SIZE,
                              pending_requests[batch_key])

\* C26: every dispatched batch has between 1 and MAX_BATCH_SIZE members and
\* every pending bucket is non-empty and holds fewer than MAX_BATCH_SIZE
\* requests; the add_request call that fills a bucket dispatches it, whole
\* and with the arriving request last.
C26_BatchSizes ==
    /\ [](/\ \A i \in BatchesPushed :
               Len(dispatched[i].request_ids) \in 1 .. MAX_BATCH_SIZE
          /\ \A k \in DOMAIN pending_requests :
               Len(pending_requests[k]) \in 1 .. (MAX_BATCH_SIZE - 1)
          /\ DOMAIN batch_timers = DOMAIN pending_requests)
    /\ [][\A r \in Clients :
            (pc[r] = "new" /\ pc'[r] = "waiting" /\ FillsBucket(r))
                => /\ Len(dispatched') = Len(dispatched) + 1
                   /\ dispatched'[Len(dispatched')].kind = "batch"
                   /\ dispatched'[Len(dispatched')].request_ids
                        = Append([j \in DOMAIN pending_requests[KeyOf(r)] |->
                                     pending_requests[KeyOf(r)][j].request_id], r)
                   /\ request_queue' = Append(request_queue, dispatched'[Len(dispatched')])]_vars

\* a full batch was dispatched before its bucket had aged at all, so by the
\* add_request call that filled it
C26_Witness ==
    /\ \E i \in BatchesPushed : Len(dispatched[i].request_ids) = MAX_BATCH_SIZE
    /\ pending_requests = << >>
    /\ \A r \in Clients : pc[r] = "waiting"

\* the request ids of a list of requests
IdsOf(requests) == [j \in DOMAIN requests |-> requests[j].request_id]

\* this step is one iteration of _batch_timeout_checker that took buckets
SweepStep ==
    /\ pending_requests' # pending_requests
    /\ pc' = pc
    /\ shutdown_event' = shutdown_event

\* C27: a timeout sweep removes every bucket whose age has reached
\* BATCH_TIMEOUT and puts it, whole, on the request channel; and a request
\* that waits in a bucket while the pool is not shut down is eventually part
\* of a batch pushed to the request channel, whatever else happens.
C27_TimeoutFlush ==
    /\ [][SweepStep =>
            \A k \in expired_keys :
                /\ k \notin DOMAIN pending_requests'
                /\ \E i \in (DOMAIN dispatched') \ (DOMAIN dispatched) :
                      /\ dispatched'[i].kind = "batch"
                      /\ dispatched'[i].request_ids = IdsOf(pending_requests[k])
                      /\ \E j \in DOMAIN request_queue' : request_queue'[j] = dispatched'[i]]_vars
    /\ \A r \in Clients :
          (r \in PendingIds /\ ~ shutdown_event) ~> (BatchOf(r) # {})

\* a bucket of one request reached BATCH_TIMEOUT and the sweep dispatched it
\* while the other client had sent nothing
C27_Witness ==
    /\ ~ shutdown_event
    /\ \E r \in Clients :
          /\ BatchOf(r) # {}
          /\ \A q \in Clients \ {r} : pc[q] = "new"

\* where the Batch Manager or the request channel holds request r: the
\* positions of r in the pending buckets and in the batches pushed
PlacesInBuckets(r) ==
    {pl \in UNION {{k} \X DOMAIN pending_requests[k] : k \in DOMAIN pending_requests} :
        pending_requests[pl[1]][pl[2]].request_id = r}
PlacesInBatches(r) ==
    {pl \in UNION {{i} \X DOMAIN dispatched[i].request_ids : i \in BatchesPushed} :
        dispatched[pl[1]].request_ids[pl[2]] = r}

\* the requests handed to BatchManager.add_request so far
GivenToBatchManager == {r \in Clients : batch_enabled /\ pc[r] \in {"waiting", "done"}}

\* C28: under every interleaving of add_request, the timeout sweep and the
\* flush of shutdown(), a request given to the Batch Manager is held exactly
\* once: at one position of one pending bucket, or at one position of one
\* batch pushed to the request channel; it is never in two batches and never
\* leaves its bucket without being pushed.  A batch pushed stays as pushed.
C28_ExactlyOneBatch ==
    /\ [](\A r \in Clients :
            Cardinality(PlacesInBuckets(r)) + Cardinality(PlacesInBatches(r))
                = IF r \in GivenToBatchManager THEN 1 ELSE 0)
    /\ [][\A r \in Clients : PlacesInBatches(r) \subseteq PlacesInBatches(r)']_vars

\* two small requests left in two batches of one: the first with the timeout
\* sweep, the second with the flush of shutdown()
C28_Witness ==
    /\ Cardinality(BatchesPushed) = 2
    /\ Cardinality(flushed_on_shutdown) = 1
    /\ \A r \in Clients : Cardinality(PlacesInBatches(r)) = 1
    /\ \A i \in BatchesPushed : dispatched[i].width * dispatched[i].height = 512 * 512

\* the request-id lists held together: one per pending bucket, one per batch pushed
Holders ==
    {IdsOf(pending_requests[k]) : k \in DOMAIN pending_requests}
    \cup {dispatched[i].request_ids : i \in BatchesPushed}

\* q stands before r in a bucket or in a batch
Before(q, r) ==
    \E h \in Holders : \E a, b \in DOMAIN h : a < b /\ h[a] = q /\ h[b] = r

\* the internal request made of the payload of client r
RequestOf(r) == GenerationRequest(r, payload[r], payload[r].stream)

\* C29: in every batch prompts, negative_prompts, request_ids and seeds have
\* the same length; position j of each holds the value of the request whose
\* id is at position j; the scalar fields are those of every member; and the
\* positions are in insertion order: an arriving request stands before no
\* other, and no step swaps two requests.
C29_ParallelArrays ==
    /\ [](\A i \in BatchesPushed :
            LET b == dispatched[i]
            IN  /\ Len(b.prompts) = Len(b.request_ids)
                /\ Len(b.negative_prompts) = Len(b.request_ids)
                /\ Len(b.seeds) = Len(b.request_ids)
                /\ \A j \in DOMAIN b.request_ids :
                      LET request == RequestOf(b.request_ids[j])
                      IN  /\ b.prompts[j] = request.prompt
                          /\ b.negative_prompts[j] = request.negative_prompt
                          /\ b.seeds[j] = request.seed
                          /\ b.width = request.width /\ b.height = request.height
                          /\ b.guidance_scale = request.guidance_scale
                          /\ b.num_inference_steps = request.num_inference_steps
                          /\ b.stream = request.stream
                          /\ b.num_images = request.num_images)
    /\ [][\A r, q \in Clients :
            /\ Before(q, r) => ~ Before(r, q)'
            /\ (batch_enabled /\ pc[r] = "new" /\ pc'[r] = "waiting") => ~ Before(r, q)']_vars

\* a batch of two requests whose prompts differ, the first without a
\* negative prompt and the second with one
C29_Witness ==
    \E i \in BatchesPushed :
        /\ Len(dispatched[i].request_ids) = 2
        /\ dispatched[i].prompts[1] # dispatched[i].prompts[2]
        /\ dispatched[i].negative_prompts[1] = None
        /\ dispatched[i].negative_prompts[2] # None

(***************************************************************************)
(* Readiness map.                                                          *)
(***************************************************************************)
\* C30: the readiness flag of a worker never goes from true to false; it
\* goes from false to true only in the step that ends a successful pipeline
\* load, so at most once; a worker whose load fails leaves with its flag
\* false, and a worker that has left never comes back.
C30_ReadyOnce ==
    /\ [](\A w \in Workers : worker_model_loaded[w] => wpc[w] # "loading")
    /\ [][\A w \in Workers :
            /\ worker_model_loaded[w] => worker_model_loaded'[w]
            /\ (~ worker_model_loaded[w] /\ worker_model_loaded'[w])
                  => (wpc[w] = "loading" /\ wpc'[w] = "idle")
            /\ (wpc[w] = "loading" /\ wpc'[w] = "exited") => ~ worker_model_loaded'[w]
            /\ wpc[w] \in {"exited", "killed"} => wpc'[w] = wpc[w]]_vars

\* before any shutdown one worker has failed to load and left with its flag
\* false while another has loaded, reported ready and is at work
C30_Witness ==
    /\ ~ shutdown_event
    /\ \E w, v \in Workers :
          /\ wpc[v] = "exited" /\ ~ worker_model_loaded[v]
          /\ wpc[w] = "pipeline" /\ worker_model_loaded[w]

\* C31: a worker holds a message only with its readiness flag set; the
\* request channel loses a message only from its head and only to a worker
\* whose flag is set, which then holds that message; so a worker whose
\* initialisation failed takes none and what was put before any worker was
\* ready waits in the channel.
C31_TakeOnlyWhenReady ==
    /\ [](\A w \in Workers : wmsg[w] # NoMsg => worker_model_loaded[w])
    /\ [][\/ /\ Len(request_queue') >= Len(request_queue)
             /\ SubSeq(request_queue', 1, Len(request_queue)) = request_queue
          \/ /\ request_queue # <<>>
             /\ request_queue' = Tail(request_queue)
             /\ \E w \in Workers :
                   /\ worker_model_loaded[w]
                   /\ wmsg[w] = NoMsg
                   /\ wmsg'[w] = Head(request_queue)]_vars

\* one worker failed to load and left, nobody has asked for a shutdown, the
\* other worker is ready and runs the first message while the second
\* message waits in the channel
C31_Witness ==
    /\ ~ shutdown_event
    /\ request_queue # <<>>
    /\ \E w, v \in Workers :
          /\ wpc[v] = "exited" /\ ~ worker_model_loaded[v] /\ wmsg[v] = NoMsg
          /\ worker_model_loaded[w] /\ wmsg[w] # NoMsg /\ wmsg[w] = dispatched[1]

\* the worker processes that have stopped
Stopped == {w \in Workers : wpc[w] \in {"exited", "killed"}}

\* C32: once shutdown_event is set every worker process stops; a worker that
\* is idle at that time takes no new message from its loop test, and a worker
\* inside a pipeline call leaves it by the end of the call or by terminate().
C32_WorkersStop ==
    /\ shutdown_event ~> (Stopped = Workers)
    /\ [][\A w \in Workers :
            /\ (shutdown_event /\ wpc[w] = "idle") => wpc'[w] \in {"idle", "exited", "killed"}
            /\ (wpc[w] = "pipeline" /\ wpc'[w] = "exited") => shutdown_event]_vars

\* every worker has stopped, and one of them first ran to its end the batch
\* that shutdown() had flushed
C32_Witness ==
    /\ shutdown_event
    /\ Stopped = Workers
    /\ \A w \in Workers : worker_model_loaded[w]
    /\ \E r \in flushed_on_shutdown : \E i \in DOMAIN emitted :
          emitted[i].request_id = r /\ emitted[i].result_type = "completed"

(***************************************************************************)
(* Per-message pipeline views.                                             *)
(***************************************************************************)
\* C33: a worker holds at most one per-message view of the base pipeline,
\* and none when it holds no message: after a message has finished, with
\* completed or with error, its view is gone.
C33_OneViewThenNone ==
    \A w \in Workers :
        /\ Cardinality(active_pipelines[w]) <= 1
        /\ wmsg[w] = NoMsg => active_pipelines[w] = {}

(***************************************************************************)
(* Steps whose image could not be decoded or encoded.                      *)
(***************************************************************************)
\* the results put so far for request r, by kind
FramesPut(r, step) ==
    {i \in DOMAIN emitted : /\ emitted[i].request_id = r
                            /\ emitted[i].result_type = "streaming_step"
                            /\ emitted[i].data.step = step}
ErrorPut(r) == \E i \in DOMAIN emitted : emitted[i].request_id = r /\ emitted[i].result_type = "error"
CompletedPut(r) == \E i \in DOMAIN emitted : emitted[i].request_id = r /\ emitted[i].result_type = "completed"

\* worker w is inside a streaming pipeline call and a step it has passed sent
\* no frame to some request of the message
StepOmitted(w) ==
    /\ wpc[w] = "pipeline" /\ wmsg[w].stream
    /\ \E step \in 0 .. (wstep[w] - 1) : \E r \in Range(targets(wmsg[w])) : FramesPut(r, step) = {}

\* C34: a step of a streaming pipeline call puts nothing but frames of that
\* step, all of them, some or none, and the call goes on; while the call
\* runs no error was put for its requests, whatever steps lost their frames;
\* a call that lost frames still ends, and a request that has its completed
\* has no error.
C34_FailedStepOmitsFrames ==
    /\ [][\A w \in Workers :
            (wpc[w] = "pipeline" /\ wstep'[w] = wstep[w] + 1) =>
                /\ wpc'[w] = "pipeline"
                /\ Len(emitted') >= Len(emitted)
                /\ \A i \in (DOMAIN emitted') \ (DOMAIN emitted) :
                      /\ emitted'[i].result_type = "streaming_step"
                      /\ emitted'[i].data.step = wstep[w]]_vars
    /\ [](\A w \in Workers :
            (wpc[w] = "pipeline" /\ wmsg[w].stream) =>
                \A r \in Range(targets(wmsg[w])) : ~ ErrorPut(r) /\ ~ CompletedPut(r))
    /\ [](\A r \in Clients : (payload[r].stream /\ CompletedPut(r)) => ~ ErrorPut(r))
    /\ \A w \in 0 .. (NUM_WORKER_PROCESSES - 1) :
          StepOmitted(w) ~> (wpc[w] = "idle")

\* the first step of a stream sent no frame, the last step sent its frame,
\* and the request has its completed and no error
C34_Witness ==
    \E r \in Clients :
        /\ payload[r].stream
        /\ FramesPut(r, 0) = {}
        /\ FramesPut(r, payload[r].num_inference_steps - 1) # {}
        /\ CompletedPut(r) /\ ~ ErrorPut(r)

(***************************************************************************)
(* The table of active requests.                                           *)
(***************************************************************************)
\* the requests admitted whose consumer has not finished
InFlight == {r \in Clients : pc[r] = "waiting"}

\* C35: a request_id is in active_requests exactly from its admission until
\* its consumer finishes, with completed, with error or because the client
\* left: it enters with the admission and with nothing else, it leaves with
\* the end of the consumer and with nothing else; with no request in flight
\* the table is empty and /status reports 0 active requests.
C35_ActiveWhileInFlight ==
    /\ [](active_requests = InFlight)
    /\ [](status_check.worker_pool.active_requests = Cardinality(InFlight))
    /\ [](InFlight = {} => status_check.worker_pool.active_requests = 0)
    /\ [][\A r \in Clients :
            /\ (r \notin active_requests /\ r \in active_requests') =>
                  (pc[r] = "new" /\ pc'[r] = "waiting")
            /\ (r \in active_requests /\ r \notin active_requests') =>
                  /\ pc'[r] \in {"done", "disconnected"}
                  /\ pc'[r] = "done" =>
                        /\ result_queue # <<>>
                        /\ Head(result_queue).request_id = r
                        /\ is_terminal(Head(result_queue))]_vars

\* one request ended with completed, the other was left by its client, and
\* /status reports 0
C35_Witness ==
    /\ \E r \in Clients : pc[r] = "done" /\ CompletedPut(r)
    /\ \E r \in Clients : pc[r] = "disconnected"
    /\ active_requests = {}
    /\ status_check.worker_pool.active_requests = 0

(***************************************************************************)
(* The events of a request whose client has left.                          *)
(***************************************************************************)
\* the positions of result_queue that hold an event of a request whose
\* client has left
Orphans == {i \in DOMAIN result_queue : pc[result_queue[i].request_id] = "disconnected"}

\* every frame written to the stream of r renders an event put for r
OwnFramesOnly(r) ==
    \A k \in DOMAIN body[r] :
        \E i \in DOMAIN emitted :
            /\ emitted[i].request_id = r
            /\ \E j \in DOMAIN sse_lines(emitted[i], payload[r].num_inference_steps) :
                  sse_lines(emitted[i], payload[r].num_inference_steps)[j] = body[r][k]

\* no stream shows a frame of another request
NoForeignDelivery == \A r \in Clients : payload[r].stream => OwnFramesOnly(r)

\* WorkerPool.shutdown has returned: the event is set and every worker was
\* joined or terminated
ShutdownComplete == shutdown_event /\ Stopped = Workers

\* C36: the events put for a request whose client has left reach no other
\* stream, and once the shutdown of the pool is complete none of them is left
\* on the result channel.
C36_OrphansDrained ==
    /\ NoForeignDelivery
    /\ ShutdownComplete => Orphans = {}

(***************************************************************************)
(* The result channel at rest.                                             *)
(***************************************************************************)
\* every admitted request has its terminal outcome and every worker is idle
AtRest ==
    /\ \A r \in Clients : pc[r] # "waiting"
    /\ \A w \in Workers : wpc[w] = "idle"

\* C37: when every admitted request has received its terminal outcome and
\* all workers are idle, the result channel is empty.
C37_NothingLeftCirculating == AtRest => result_queue = <<>>

(***************************************************************************)
(* The image counters of the frames of a stream.                           *)
(***************************************************************************)
\* the frames delivered to request r that carry an image
ImageFramesOf(r) == {k \in DOMAIN body[r] : body[r][k].type = "image"}

\* C38: every frame delivered to a streamed request that asked for n images
\* has 0 <= image_index < total_images = n, so that the frames of one step
\* are those of its own n images and of no other, also for a member of a batch.
C38_FrameImageIndex ==
    \A r \in Clients :
        payload[r].stream =>
            \A k \in ImageFramesOf(r) :
                /\ body[r][k].total_images = payload[r].n
                /\ 0 <= body[r][k].image_index
                /\ body[r][k].image_index < body[r][k].total_images

(***************************************************************************)
(* The image files of the gallery entries.                                 *)
(***************************************************************************)
\* the entries of the index as it can be read
gallery_entries == IF gallery_json.exists /\ gallery_json.valid THEN gallery_json.images ELSE <<>>

\* two entries share one file name
SharedFile ==
    \E i, j \in DOMAIN gallery_entries :
        i # j /\ gallery_entries[i].url = gallery_entries[j].url

\* an entry of the index has no image file
EntryWithoutFile ==
    \E i \in DOMAIN gallery_entries : gallery_entries[i].url \notin image_files

\* C39: distinct entries of the index reference distinct image files, and
\* the image file of every entry of the index exists, whatever saves (also
\* within one second) and deletes of other entries came before.
C39_EntryHasItsFile == ~ SharedFile /\ ~ EntryWithoutFile

(***************************************************************************)
(* The calls convert_prompt and translate_prompt make to the LLM.          *)
(***************************************************************************)
\* the calls made for the request of prompt_call: none when OpenAI(...) raised
CallsMade ==
    IF prompt_call.client_raises THEN 0
    ELSE llm_calls(1, prompt_call.request.retry_times, prompt_call.outcomes)

\* the attempt returned text that is not empty
NonEmptyText(outcome) == outcome.kind = "content" /\ truthy(outcome.content)

\* C40: for one request convert_prompt and translate_prompt call the LLM at
\* most retry_times times, and no call follows the first attempt that
\* returned non-empty text: every call but the last one made raised or
\* returned nothing.
C40_BoundedLLMCalls ==
    prompt_call # NoCall =>
        /\ CallsMade <= prompt_call.request.retry_times
        /\ \A k \in 1 .. (CallsMade - 1) : ~ NonEmptyText(prompt_call.outcomes[k])
        /\ (~ prompt_call.client_raises) =>
              \/ NonEmptyText(prompt_call.outcomes[CallsMade])
              \/ CallsMade = prompt_call.request.retry_times

\* two calls were allowed, the first returned text and the second was not
\* made; its text, cleaned, is the answer
C40_Witness ==
    /\ prompt_call # NoCall
    /\ ~ prompt_call.client_raises
    /\ prompt_call.request.retry_times = 2
    /\ NonEmptyText(prompt_call.outcomes[1])
    /\ prompt_call.outcomes[2] = LLMRaises
    /\ CallsMade = 1
    /\ prompt_call.response.success

====
